---- MODULE Spec2Model ----
(***************************************************************************)
(* A model of the raytracing.rs renderer: Renderer::new / render / trace,  *)
(* the sampler's pool and draws, the axis-aligned bounding box, the sphere *)
(* and triangle primitives and the BVH built over them.                    *)
(*                                                                         *)
(* Colors are kept symbolic: the color traced for a ray is the token of    *)
(* that ray, a sum of colors is the sequence of its summands and a         *)
(* division keeps its divisor, so that "which traced colors make up pixel  *)
(* n" is decided by the code's indexing alone.                             *)
(*                                                                         *)
(* Geometry uses exact arithmetic on integer coordinates.  A quotient is a *)
(* fraction [n, d] with d >= 0; d = 0 encodes the IEEE-754 results of a    *)
(* division by zero: n = 1 is +inf, n = -1 is -inf, n = 0 is NaN (0/0).    *)
(***************************************************************************)
EXTENDS Integers, Sequences, FiniteSets, TLC

VARIABLES
    args,        \* args::Args: [width, height, samples, preview]
    caller,      \* who builds the scene: "lib" (the library's tests) or "main"
    scene,       \* CornellBox: [view_width, view_height]
    renderer,    \* Renderer: [sampler, max_depth], or Null before Renderer::new
    num_threads, \* rayon::current_num_threads()
    pc,          \* position of the program: "args", "ready", "rendering", "done"
    tasks,       \* one record per chunk task of render's parallel map
    pixels,      \* the Vec<Color> render returns
    processed,   \* history: pixel index -> <<task, column, row>> of each processing
    traceLog,    \* history of the last Renderer::trace call
    gin,         \* input of the geometric function under check
    gout         \* its result

vars == <<args, caller, scene, renderer, num_threads, pc, tasks, pixels, processed,
          traceLog, gin, gout>>

renderVars ==
    <<args, caller, scene, renderer, num_threads, pc, tasks, pixels, processed>>
geomVars == <<gin, gout>>

Null == [kind |-> "null"]

-----------------------------------------------------------------------------
(* Bounds of the model *)

MaxWidth == 2
MaxHeight == 2
MaxSamples == 4
MaxThreads == 3
MaxTraceDepth == 7
MaxBoxCoord == 2
MaxUnionCoord == 1
MaxRadius == 2
MaxLeg == 3

-----------------------------------------------------------------------------
(* Program constants *)

DEFAULT_MAX_DEPTH == 5
PREVIEW_MAX_DEPTH == 1
PREVIEW_SAMPLES == 1
NUM_SETS == 83

\* EPSILON = 1e-8 of Triangle::intersects in the unit of the grid: a coordinate k
\* stands for k * 5e-5, so a determinant of k (two lengths times an integer
\* direction) stands for k * 2.5e-9, and |det| < 1e-8 is |k| < 4
DetEpsilon == 4

-----------------------------------------------------------------------------
(* Small helpers *)

Min2(a, b) == IF a <= b THEN a ELSE b
Max2(a, b) == IF a >= b THEN a ELSE b

RECURSIVE ISqrtFrom(_, _)
ISqrtFrom(x, r) == IF (r + 1) * (r + 1) > x THEN r ELSE ISqrtFrom(x, r + 1)

\* num_integer::Roots::sqrt on u8: the floor of the square root
ISqrt(x) == ISqrtFrom(x, 0)

RECURSIVE Flatten(_)
Flatten(ss) == IF ss = <<>> THEN <<>> ELSE Head(ss) \o Flatten(Tail(ss))

-----------------------------------------------------------------------------
(* f64 quotients: a fraction [n, d], d >= 0; d = 0 is n = 1: +inf, n = -1: -inf,
   n = 0: NaN *)

Sign(x) == IF x > 0 THEN 1 ELSE IF x < 0 THEN -1 ELSE 0

FInt(x) == [n |-> x, d |-> 1]
PosInf == [n |-> 1, d |-> 0]
NaN == [n |-> 0, d |-> 0]

\* x / y on f64 for integer-valued x, y
FDiv(x, y) ==
    IF y > 0 THEN [n |-> x, d |-> y]
    ELSE IF y < 0 THEN [n |-> -x, d |-> -y]
    ELSE [n |-> Sign(x), d |-> 0]

IsNaN(a) == a.d = 0 /\ a.n = 0
IsFinite(a) == a.d > 0

\* a < b and a <= b on f64: false when either side is NaN
FLt(a, b) ==
    /\ ~IsNaN(a)
    /\ ~IsNaN(b)
    /\ IF a.d = 0 /\ b.d = 0 THEN a.n < b.n ELSE a.n * b.d < b.n * a.d

FLe(a, b) ==
    /\ ~IsNaN(a)
    /\ ~IsNaN(b)
    /\ IF a.d = 0 /\ b.d = 0 THEN a.n <= b.n ELSE a.n * b.d <= b.n * a.d

FEq(a, b) == FLe(a, b) /\ FLe(b, a)

\* f64::min and f64::max: a NaN operand is ignored
FMin(a, b) == IF IsNaN(a) THEN b ELSE IF IsNaN(b) THEN a ELSE IF FLt(b, a) THEN b ELSE a
FMax(a, b) == IF IsNaN(a) THEN b ELSE IF IsNaN(b) THEN a ELSE IF FLt(a, b) THEN b ELSE a

-----------------------------------------------------------------------------
(* Aabb *)

Axes == 1..3

\* Aabb::new
AabbNew(min, max) == [min |-> min, max |-> max]

\* the slab loop of Aabb::intersects from axis i on
RECURSIVE AabbSlabs(_, _, _, _, _)
AabbSlabs(box, r, i, tmin, tmax) ==
    IF i > 3 THEN TRUE
    ELSE LET t1 == FDiv(box.min[i] - r.origin[i], r.dir[i])
             t2 == FDiv(box.max[i] - r.origin[i], r.dir[i])
             tmin2 == FMax(FMin(t1, t2), tmin)
             tmax2 == FMin(FMax(t1, t2), tmax)
         IN  IF FLt(tmax2, tmin2) THEN FALSE
             ELSE AabbSlabs(box, r, i + 1, tmin2, tmax2)

\* Aabb::intersects
AabbIntersects(box, r, tmin, tmax) == AabbSlabs(box, r, 1, tmin, tmax)

\* get_surrounding_aabb taking the larger of the two minima
SurroundingAabbMaxOfMins(box0, box1) ==
    AabbNew([i \in Axes |-> Max2(box0.min[i], box1.min[i])],
            [i \in Axes |-> Max2(box0.max[i], box1.max[i])])

\* Aabb::get_surrounding_aabb
GetSurroundingAabb(box0, box1) ==
    AabbNew([i \in Axes |-> Min2(box0.min[i], box1.min[i])],
            [i \in Axes |-> Max2(box0.max[i], box1.max[i])])

\* Ray::new
RayNew(origin, dir) == [origin |-> origin, dir |-> dir]

-----------------------------------------------------------------------------
(* Vectors and points: triples of integers *)

Dot(a, b) == a[1] * b[1] + a[2] * b[2] + a[3] * b[3]
Cross(a, b) ==
    <<a[2] * b[3] - a[3] * b[2], a[3] * b[1] - a[1] * b[3], a[1] * b[2] - a[2] * b[1]>>
VSub(a, b) == [i \in Axes |-> a[i] - b[i]]
VAdd(a, b) == [i \in Axes |-> a[i] + b[i]]
VScale(a, k) == [i \in Axes |-> a[i] * k]
Abs(x) == IF x < 0 THEN -x ELSE x

IsSquare(x) == x >= 0 /\ ISqrt(x) * ISqrt(x) = x

\* f64::sqrt where the root is exact
Sqrt(x) == ISqrt(x)

NoHit == [hit |-> FALSE]

\* Ray::get_point(t) for a finite fraction t: the point's numerators over t.d
GetPoint(r, t) == [num |-> VAdd(VScale(r.origin, t.d), VScale(r.dir, t.n)), den |-> t.d]

\* HitRecord { dist, hit_point, normal, material }
HitRecord(dist, hit_point, normal, material) ==
    [hit |-> TRUE, dist |-> dist, hit_point |-> hit_point, normal |-> normal,
     material |-> material]

-----------------------------------------------------------------------------
(* Sphere *)

\* Sphere { radius, center, material }
Sphere(material, radius, center) ==
    [kind |-> "sphere", radius |-> radius, center |-> center, material |-> material]

\* Sphere::normal(p): (p - center) / radius, of unit length on the surface
SphereNormal(sp, p) ==
    [num |-> VSub(p.num, VScale(sp.center, p.den)), den |-> p.den * sp.radius]

SphereHit(sp, r, t) ==
    LET hit_point == GetPoint(r, t)
    IN  HitRecord(t, hit_point, SphereNormal(sp, hit_point), sp.material)

\* Sphere::intersects trying the farther root first
SphereIntersectsFarFirst(sp, r, t_min, t_max) ==
    LET oc == VSub(r.origin, sp.center)
        a == Dot(r.dir, r.dir)
        half_b == Dot(oc, r.dir)
        c == Dot(oc, oc) - sp.radius * sp.radius
        discriminant == half_b * half_b - a * c
        sqrt_disc == Sqrt(discriminant)
        t == FDiv(-half_b + sqrt_disc, a)
        t_far == FDiv(-half_b - sqrt_disc, a)
    IN  IF discriminant < 0 THEN NoHit
        ELSE IF FLt(t, t_min) \/ FLt(t_max, t)
        THEN IF FLt(t_far, t_min) \/ FLt(t_max, t_far) THEN NoHit
             ELSE SphereHit(sp, r, t_far)
        ELSE SphereHit(sp, r, t)

\* Sphere::intersects answering with the nearer root without the range test
SphereIntersectsAnyRoot(sp, r, t_min, t_max) ==
    LET oc == VSub(r.origin, sp.center)
        a == Dot(r.dir, r.dir)
        half_b == Dot(oc, r.dir)
        c == Dot(oc, oc) - sp.radius * sp.radius
        discriminant == half_b * half_b - a * c
    IN  IF discriminant < 0 THEN NoHit
        ELSE SphereHit(sp, r, FDiv(-half_b - Sqrt(discriminant), a))

\* Sphere::intersects
SphereIntersects(sp, r, t_min, t_max) ==
    LET oc == VSub(r.origin, sp.center)
        a == Dot(r.dir, r.dir)
        half_b == Dot(oc, r.dir)
        c == Dot(oc, oc) - sp.radius * sp.radius
        discriminant == half_b * half_b - a * c
        sqrt_disc == Sqrt(discriminant)
        t == FDiv(-half_b - sqrt_disc, a)
        t_far == FDiv(-half_b + sqrt_disc, a)
    IN  IF discriminant < 0 THEN NoHit
        ELSE IF FLt(t, t_min) \/ FLt(t_max, t)
        THEN IF FLt(t_far, t_min) \/ FLt(t_max, t_far) THEN NoHit
             ELSE SphereHit(sp, r, t_far)
        ELSE SphereHit(sp, r, t)

\* Sphere::get_min_point, get_max_point and Geometry::get_bounding_box
SphereBoundingBox(sp) ==
    AabbNew([i \in Axes |-> sp.center[i] - sp.radius],
            [i \in Axes |-> sp.center[i] + sp.radius])

-----------------------------------------------------------------------------
(* Triangle *)

\* Triangle { x, y, z, material }
Triangle(material, x, y, z) ==
    [kind |-> "triangle", x |-> x, y |-> y, z |-> z, material |-> material]

\* Triangle::normal: e2 x e1, left unnormalised
TriangleNormal(tr) == Cross(VSub(tr.z, tr.x), VSub(tr.y, tr.x))

\* Triangle::intersects with the two edges swapped in qvec
TriangleIntersectsSwapped(tr, r, t_min, t_max) ==
    LET edge1 == VSub(tr.y, tr.x)
        edge2 == VSub(tr.z, tr.x)
        pvec == Cross(r.dir, edge2)
        det == Dot(edge1, pvec)
        tvec == VSub(r.origin, tr.x)
        u == FDiv(Dot(tvec, pvec), det)
        qvec == Cross(tvec, edge2)
        v == FDiv(Dot(r.dir, qvec), det)
        uv == FDiv(Dot(tvec, pvec) + Dot(r.dir, qvec), det)
        t == FDiv(Dot(edge1, qvec), det)
    IN  IF Abs(det) < DetEpsilon THEN NoHit
        ELSE IF ~(FLe(FInt(0), u) /\ FLe(u, FInt(1))) THEN NoHit
        ELSE IF FLt(v, FInt(0)) \/ FLt(FInt(1), uv) THEN NoHit
        ELSE IF FLt(t, t_min) \/ FLt(t_max, t) THEN NoHit
        ELSE HitRecord(t, GetPoint(r, t), TriangleNormal(tr), tr.material)

\* Triangle::intersects (Moller-Trumbore); x * inv_det is the quotient x / det
TriangleIntersects(tr, r, t_min, t_max) ==
    LET edge1 == VSub(tr.y, tr.x)
        edge2 == VSub(tr.z, tr.x)
        pvec == Cross(r.dir, edge2)
        det == Dot(edge1, pvec)
        tvec == VSub(r.origin, tr.x)
        u == FDiv(Dot(tvec, pvec), det)
        qvec == Cross(tvec, edge1)
        v == FDiv(Dot(r.dir, qvec), det)
        uv == FDiv(Dot(tvec, pvec) + Dot(r.dir, qvec), det)
        t == FDiv(Dot(edge2, qvec), det)
    IN  IF Abs(det) < DetEpsilon THEN NoHit
        ELSE IF ~(FLe(FInt(0), u) /\ FLe(u, FInt(1))) THEN NoHit
        ELSE IF FLt(v, FInt(0)) \/ FLt(FInt(1), uv) THEN NoHit
        ELSE IF FLt(t, t_min) \/ FLt(t_max, t) THEN NoHit
        ELSE HitRecord(t, GetPoint(r, t), TriangleNormal(tr), tr.material)

Min3(a, b, c) == Min2(Min2(a, b), c)
Max3(a, b, c) == Max2(Max2(a, b), c)

\* Triangle::get_min_point, get_max_point and Geometry::get_bounding_box
TriangleBoundingBox(tr) ==
    AabbNew([i \in Axes |-> Min3(tr.x[i], tr.y[i], tr.z[i])],
            [i \in Axes |-> Max3(tr.x[i], tr.y[i], tr.z[i])])

-----------------------------------------------------------------------------
(* Sampler *)

\* Sampler::new: num_sets sets of n * n jittered points, n = floor(sqrt(num_samples)).
\* A point is the grid cell (k, j) it was jittered in and the set it was made for.
SamplerNew(num_samples) ==
    LET n == ISqrt(num_samples)
        per == n * n
    IN  [num_samples |-> num_samples,
         num_sets |-> NUM_SETS,
         samples |-> [i \in 1..(NUM_SETS * per) |->
                        [set |-> (i - 1) \div per,
                         j |-> ((i - 1) % per) \div n,
                         k |-> ((i - 1) % per) % n]]]

\* Sampler::count
SamplerCount(s) == s.num_samples

\* Sampler::unit_square with the drawn skip: samples.iter().skip(skip).take(count)
UnitSquare(s, skip) ==
    LET len == Len(s.samples)
        from == Min2(skip, len)
        upto == Min2(from + SamplerCount(s), len)
    IN  SubSeq(s.samples, from + 1, upto)

\* Sampler::square: the same points as Point2
Square(s, skip) == UnitSquare(s, skip)

-----------------------------------------------------------------------------
(* Camera and Renderer *)

\* Pinhole::get_rays: one ray per sample point, through origin - dp.  A ray is
\* named by the pixel it was generated for and its place in the batch.
GetRays(origin, s, skip) ==
    LET pts == Square(s, skip)
    IN  [i \in 1..Len(pts) |-> [px |-> origin, ray |-> i]]

\* CornellBox::new(view_width, view_height, args), its resolution only
CornellBoxNew(view_width, view_height) ==
    [view_width |-> view_width, view_height |-> view_height]

\* the scene each caller builds: the library's tests pass (width, height),
\* main's create_scene passes (height, height)
CreateScene(who, a) ==
    IF who = "main" THEN CornellBoxNew(a.height, a.height)
    ELSE CornellBoxNew(a.width, a.height)

\* Renderer::new with the requested sample count kept in preview mode
RendererNewKeepsSamples(a) ==
    [sampler |-> SamplerNew(a.samples),
     max_depth |-> IF a.preview THEN PREVIEW_MAX_DEPTH ELSE DEFAULT_MAX_DEPTH]

\* Renderer::new
RendererNew(a) ==
    [sampler |-> SamplerNew(IF a.preview THEN PREVIEW_SAMPLES ELSE a.samples),
     max_depth |-> IF a.preview THEN PREVIEW_MAX_DEPTH ELSE DEFAULT_MAX_DEPTH]

\* Color::zeros()
Zeros == [kind |-> "zeros"]

\* the depth test of trace, passing one level too many
DepthExceededLate(depth, max_depth) == depth > max_depth + 1

\* trace's terminal condition: depth > self.max_depth
DepthExceeded(depth, max_depth) == depth > max_depth

\* Renderer::trace(ray, depth).  hit is what scene.intersects answers for the ray
\* ("none" or the material struck) and shaded what that material's shade returns;
\* queried and shaded_hit record whether the scene was asked and a material shaded.
Trace(r, depth, hit, shaded) ==
    IF DepthExceeded(depth, r.max_depth)
    THEN [color |-> Zeros, queried |-> FALSE, shaded_hit |-> FALSE]
    ELSE IF hit = "none"
    THEN [color |-> Zeros, queried |-> TRUE, shaded_hit |-> FALSE]
    ELSE [color |-> shaded, queried |-> TRUE, shaded_hit |-> TRUE]

\* the color Renderer::trace(ray, 0) returns for a camera ray, kept symbolic
TracedColor(ray) == [traced |-> ray]

\* total_pixels = (width * height) as usize; the u32 product cannot wrap at the
\* resolutions of this model
TotalPixels(sc) == sc.view_width * sc.view_height

\* pixels_per_thread = (total_pixels + num_threads - 1) / num_threads
PixelsPerThread(total, threads) == (total + threads - 1) \div threads

\* the number of chunks rayon's chunks(size) makes of 0..total
NumChunks(total, size) == (total + size - 1) \div size

\* the pixel indices chunk c holds: [ChunkFirst, ChunkEnd)
ChunkFirst(c, size) == (c - 1) * size
ChunkEnd(c, size, total) == Min2(c * size, total)

\* slice.chunks(size): consecutive slices of size elements, the last one shorter
RECURSIVE SliceChunks(_, _)
SliceChunks(s, size) ==
    IF s = <<>> THEN <<>>
    ELSE IF Len(s) <= size THEN <<s>>
    ELSE <<SubSeq(s, 1, size)>> \o SliceChunks(SubSeq(s, size + 1, Len(s)), size)

\* samples.iter().sum::<Color>() / f64::from(self.sampler.count())
Average(samples, count) == [sum |-> samples, div |-> count]

\* the closure's tail: chunk_colors.chunks(samples_per_pixel).map(average).collect()
AverageChunks(chunk_colors, samples_per_pixel, count) ==
    LET cs == SliceChunks(chunk_colors, samples_per_pixel)
    IN  [i \in 1..Len(cs) |-> Average(cs[i], count)]

-----------------------------------------------------------------------------
(* Renderer::render as chunk tasks *)

ArgSet ==
    [width : 1..MaxWidth, height : 1..MaxHeight, samples : 1..MaxSamples,
     preview : BOOLEAN]

IdleGeom == gin = Null /\ gout = Null
IdleTrace == traceLog = Null

\* the tasks render's into_par_iter().chunks(pixels_per_thread) starts
StartTasks(total, threads) ==
    LET size == PixelsPerThread(total, threads)
    IN  [c \in 1..NumChunks(total, size) |->
            [next |-> ChunkFirst(c, size),
             end |-> ChunkEnd(c, size, total),
             chunk_colors |-> <<>>,
             out |-> <<>>,
             done |-> FALSE]]

\* The state when render is entered: the scene and the renderer are built.
Init ==
    /\ args \in ArgSet
    /\ caller \in {"lib", "main"}
    /\ scene = CreateScene(caller, args)
    /\ renderer = RendererNew(args)
    /\ num_threads \in 1..MaxThreads
    /\ pc = "rendering"
    /\ tasks = StartTasks(TotalPixels(scene), num_threads)
    /\ pixels = <<>>
    /\ processed = [n \in 0..(TotalPixels(scene) - 1) |-> <<>>]
    /\ IdleTrace
    /\ IdleGeom

\* One iteration of "for n in pixel_indices" in task c with the drawn skip; the
\* last iteration of the chunk also runs the closure's tail, the averaging of
\* chunk_colors.
PixelStep(c, skip) ==
    LET t == tasks[c]
        n == t.next
        width == scene.view_width
        i == n % width
        j == n \div width
        rays == GetRays(n, renderer.sampler, skip)
        colors == [r \in 1..Len(rays) |-> TracedColor(rays[r])]
        cc == t.chunk_colors \o colors
        last == n + 1 = t.end
        spp == SamplerCount(renderer.sampler)
    IN  /\ tasks' = [tasks EXCEPT ![c] =
                        [next |-> n + 1,
                         end |-> t.end,
                         chunk_colors |-> cc,
                         out |-> IF last THEN AverageChunks(cc, spp, spp)
                                 ELSE <<>>,
                         done |-> last]]
        /\ processed' = [processed EXCEPT ![n] =
                            Append(@, [task |-> c, col |-> i, row |-> j,
                                       rays |-> Len(rays)])]

ProcessPixel(c) ==
    /\ pc = "rendering"
    /\ ~tasks[c].done
    /\ \E skip \in 0..(renderer.sampler.num_sets - 1) : PixelStep(c, skip)
    /\ UNCHANGED <<args, caller, scene, renderer, num_threads, pc, pixels, traceLog>>
    /\ UNCHANGED geomVars

\* collect() of the chunk results in chunk order, then flatten
Collect ==
    /\ pc = "rendering"
    /\ \A c \in DOMAIN tasks : tasks[c].done
    /\ pixels' = Flatten([c \in DOMAIN tasks |-> tasks[c].out])
    /\ pc' = "done"
    /\ UNCHANGED <<args, caller, scene, renderer, num_threads, tasks, processed,
                   traceLog>>
    /\ UNCHANGED geomVars

Next ==
    \/ \E c \in DOMAIN tasks : ProcessPixel(c)
    \/ Collect

Spec == Init /\ [][Next]_vars

-----------------------------------------------------------------------------
(* Renderer::new and Renderer::trace called directly *)

Materials == {"matte", "phong", "reflective", "emissive"}
ShadedColors == {Zeros, [kind |-> "shaded"]}

IdleRender ==
    /\ num_threads = 1
    /\ tasks = <<>>
    /\ pixels = <<>>
    /\ processed = <<>>

InitRenderer ==
    /\ args \in ArgSet
    /\ caller \in {"lib", "main"}
    /\ scene = CreateScene(caller, args)
    /\ renderer = Null
    /\ pc = "args"
    /\ IdleRender
    /\ IdleTrace
    /\ IdleGeom

New ==
    /\ pc = "args"
    /\ renderer' = RendererNew(args)
    /\ pc' = "ready"
    /\ UNCHANGED <<args, caller, scene, num_threads, tasks, pixels, processed,
                   traceLog>>
    /\ UNCHANGED geomVars

TraceCall ==
    /\ pc = "ready"
    /\ \E depth \in 0..MaxTraceDepth, hit \in Materials \cup {"none"},
          shaded \in ShadedColors :
        traceLog' = [depth |-> depth, hit |-> hit,
                     result |-> Trace(renderer, depth, hit, shaded)]
    /\ UNCHANGED renderVars
    /\ UNCHANGED geomVars

NextRenderer == New \/ TraceCall

SpecRenderer == InitRenderer /\ [][NextRenderer]_vars

\* C4: with preview = true Renderer::new yields sampler.count() = 1 and
\* max_depth = 1 whatever sample count was requested; with preview = false it
\* yields sampler.count() = args.samples and max_depth = 5.
C4_PreviewOverride ==
    renderer # Null =>
        IF args.preview
        THEN SamplerCount(renderer.sampler) = 1 /\ renderer.max_depth = 1
        ELSE SamplerCount(renderer.sampler) = args.samples /\ renderer.max_depth = 5

C4_Witness ==
    renderer # Null /\ args.preview /\ args.samples > 1

\* C5: trace(ray, depth) with depth > max_depth returns the zero color without
\* querying the scene for an intersection and without shading any material.
C5_DepthCutoff ==
    (traceLog # Null /\ traceLog.depth > renderer.max_depth) =>
        /\ traceLog.result.color = Zeros
        /\ ~traceLog.result.queried
        /\ ~traceLog.result.shaded_hit

C5_Witness ==
    /\ traceLog # Null
    /\ traceLog.depth = renderer.max_depth + 1
    /\ traceLog.hit # "none"

-----------------------------------------------------------------------------
(* Claims about Renderer::render, checked under Spec *)

Total == scene.view_width * scene.view_height

\* the pixels the summands of an averaged color were traced for
SourcePixels(color) == {color.sum[i].traced.px : i \in DOMAIN color.sum}

\* the colors traced for the rays generated for pixel n, in generation order
TracedFor(n) ==
    [r \in 1..processed[n][1].rays |-> TracedColor([px |-> n, ray |-> r])]

\* C1: for every non-preview sample count, every resolution, thread count and
\* sample-set offset, render returns exactly view_width * view_height colors.
C1_RenderLength ==
    (pc = "done" /\ ~args.preview) => Len(pixels) = Total

\* C2: every pixel index in [0, width * height) is processed by exactly one task,
\* at column n mod width and row n div width, and the n-th element of the
\* returned sequence is the color of that pixel.
C2_PartitionRowMajor ==
    pc = "done" =>
        \A n \in 0..(Total - 1) :
            /\ Len(processed[n]) = 1
            /\ processed[n][1].col = n % scene.view_width
            /\ processed[n][1].row = n \div scene.view_width
            /\ n + 1 \in DOMAIN pixels
            /\ SourcePixels(pixels[n + 1]) = {n}

\* the part of C2 about the partition alone
C2_Partition ==
    pc = "done" =>
        \A n \in 0..(Total - 1) :
            /\ Len(processed[n]) = 1
            /\ processed[n][1].col = n % scene.view_width
            /\ processed[n][1].row = n \div scene.view_width

\* C3: the color stored for pixel n is the sum of the colors traced for the rays
\* generated for pixel n divided by sampler.count(); no color traced for another
\* pixel contributes to it.
C3_PixelIsOwnAverage ==
    pc = "done" =>
        \A n \in 0..(Total - 1) :
            n + 1 \in DOMAIN pixels =>
                pixels[n + 1] = Average(TracedFor(n), SamplerCount(renderer.sampler))

-----------------------------------------------------------------------------
(* Aabb::intersects applied to boxes and rays on a small integer grid *)

Vec3s(S) == {<<x, y, z>> : x \in S, y \in S, z \in S}

Dirs == Vec3s(-1..1) \ {<<0, 0, 0>>}

\* per axis: the full extent, a thinner slab and a flat (zero-extent) slab
SlabSet == {<<0, MaxBoxCoord>>, <<0, 1>>, <<1, 1>>}

SlabBoxes ==
    {AabbNew(<<x[1], y[1], z[1]>>, <<x[2], y[2], z[2]>>) :
        x \in SlabSet, y \in SlabSet, z \in SlabSet}

RangeSet == {[t_min |-> FInt(0), t_max |-> PosInf], [t_min |-> FInt(0), t_max |-> FInt(2)]}

InitAabb ==
    /\ \E box \in SlabBoxes, o \in Vec3s(-1..(MaxBoxCoord + 1)), d \in Dirs,
          rg \in RangeSet :
        gin = [fn |-> "Aabb::intersects", box |-> box, ray |-> RayNew(o, d),
               t_min |-> rg.t_min, t_max |-> rg.t_max]
    /\ gout = Null
    /\ args = Null /\ caller = "lib" /\ scene = Null /\ renderer = Null
    /\ pc = "geometry"
    /\ IdleRender
    /\ IdleTrace

AabbIntersectsCall ==
    /\ gin.fn = "Aabb::intersects"
    /\ gout = Null
    /\ gout' = [hit |-> AabbIntersects(gin.box, gin.ray, gin.t_min, gin.t_max)]
    /\ UNCHANGED <<gin, traceLog>>
    /\ UNCHANGED renderVars

NextAabb == AabbIntersectsCall

SpecAabb == InitAabb /\ [][NextAabb]_vars

\* origin + t * dir lies in the box, boundary included (t a finite fraction)
PointInBox(box, r, t) ==
    \A i \in Axes :
        /\ box.min[i] * t.d <= r.origin[i] * t.d + t.n * r.dir[i]
        /\ r.origin[i] * t.d + t.n * r.dir[i] <= box.max[i] * t.d

\* If some t in [t_min, t_max] puts the ray in the box, the least such t is t_min
\* or the parameter at which the ray crosses one of the six planes.
EntryCandidates(box, r, t_min) ==
    {t_min} \cup {FDiv(box.min[i] - r.origin[i], r.dir[i]) : i \in {a \in Axes : r.dir[a] # 0}}
            \cup {FDiv(box.max[i] - r.origin[i], r.dir[i]) : i \in {a \in Axes : r.dir[a] # 0}}

RayMeetsBox(box, r, t_min, t_max) ==
    \E t \in EntryCandidates(box, r, t_min) :
        FLe(t_min, t) /\ FLe(t, t_max) /\ PointInBox(box, r, t)

\* C7: Aabb::intersects returns true exactly when some t in [t_min, t_max] puts
\* origin + t * dir inside the box, boundary included, also for rays with a zero
\* direction component.
C7_SlabTestExact ==
    gout # Null /\ gin.fn = "Aabb::intersects" =>
        (gout.hit <=> RayMeetsBox(gin.box, gin.ray, gin.t_min, gin.t_max))

\* the same for rays without a zero direction component
C7_NoZeroComponent ==
    (gout # Null /\ gin.fn = "Aabb::intersects" /\ \A i \in Axes : gin.ray.dir[i] # 0) =>
        (gout.hit <=> RayMeetsBox(gin.box, gin.ray, gin.t_min, gin.t_max))

\* the same for rays that do not start on the plane of a face they run parallel to
C7_OffThePlanes ==
    (/\ gout # Null
     /\ gin.fn = "Aabb::intersects"
     /\ \A i \in Axes :
            gin.ray.dir[i] = 0 =>
                (gin.box.min[i] = gin.box.max[i]
                 \/ gin.ray.origin[i] \notin {gin.box.min[i], gin.box.max[i]}))
    => (gout.hit <=> RayMeetsBox(gin.box, gin.ray, gin.t_min, gin.t_max))

-----------------------------------------------------------------------------
(* Aabb::get_surrounding_aabb applied to pairs of boxes, inverted ones included *)

UnionCorners == Vec3s(0..MaxUnionCoord)

InitUnion ==
    /\ \E amin \in UnionCorners, amax \in UnionCorners, bmin \in UnionCorners,
          bmax \in UnionCorners :
        gin = [fn |-> "Aabb::get_surrounding_aabb", box0 |-> AabbNew(amin, amax),
               box1 |-> AabbNew(bmin, bmax)]
    /\ gout = Null
    /\ args = Null /\ caller = "lib" /\ scene = Null /\ renderer = Null
    /\ pc = "geometry"
    /\ IdleRender
    /\ IdleTrace

SurroundingCall ==
    /\ gin.fn = "Aabb::get_surrounding_aabb"
    /\ gout = Null
    /\ gout' = [box |-> GetSurroundingAabb(gin.box0, gin.box1)]
    /\ UNCHANGED <<gin, traceLog>>
    /\ UNCHANGED renderVars

NextUnion == SurroundingCall

SpecUnion == InitUnion /\ [][NextUnion]_vars

\* the eight corners of a box
Corners(box) ==
    {<<x, y, z>> : x \in {box.min[1], box.max[1]}, y \in {box.min[2], box.max[2]},
                   z \in {box.min[3], box.max[3]}}

Within(p, box) == \A i \in Axes : box.min[i] <= p[i] /\ p[i] <= box.max[i]

Ordered(box) == \A i \in Axes : box.min[i] <= box.max[i]

-----------------------------------------------------------------------------
(* Sphere::intersects applied to spheres and rays on a small integer grid *)

SphereSet ==
    {Sphere("matte", rad, c) : rad \in 1..MaxRadius, c \in {<<0, 0, 0>>, <<1, 0, 0>>}}

SphereOrigins ==
    {<<x, y, z>> : x \in (-MaxRadius)..MaxRadius, y \in (-MaxRadius)..MaxRadius,
                   z \in (-2 * MaxRadius)..(2 * MaxRadius)}

SphereRanges ==
    RangeSet \cup {[t_min |-> FInt(1), t_max |-> FInt(3)]}

\* the coefficients a, half_b, c of the quadratic a t^2 + 2 half_b t + c = 0
QuadA(sp, r) == Dot(r.dir, r.dir)
QuadHalfB(sp, r) == Dot(VSub(r.origin, sp.center), r.dir)
QuadC(sp, r) ==
    Dot(VSub(r.origin, sp.center), VSub(r.origin, sp.center)) - sp.radius * sp.radius

\* the grid keeps the rays whose quadratic has no real root or rational roots, so
\* that f64::sqrt is exact on the discriminant
RationalRoots(sp, r) ==
    LET disc == QuadHalfB(sp, r) * QuadHalfB(sp, r) - QuadA(sp, r) * QuadC(sp, r)
    IN  disc < 0 \/ IsSquare(disc)

InitSphere ==
    /\ \E sp \in SphereSet, o \in SphereOrigins, d \in Dirs, rg \in SphereRanges :
        /\ RationalRoots(sp, RayNew(o, d))
        /\ gin = [fn |-> "Sphere::intersects", sphere |-> sp, ray |-> RayNew(o, d),
                  t_min |-> rg.t_min, t_max |-> rg.t_max]
    /\ gout = Null
    /\ args = Null /\ caller = "lib" /\ scene = Null /\ renderer = Null
    /\ pc = "geometry"
    /\ IdleRender
    /\ IdleTrace

SphereIntersectsCall ==
    /\ gin.fn = "Sphere::intersects"
    /\ gout = Null
    /\ gout' = SphereIntersects(gin.sphere, gin.ray, gin.t_min, gin.t_max)
    /\ UNCHANGED <<gin, traceLog>>
    /\ UNCHANGED renderVars

NextSphere == SphereIntersectsCall

SpecSphere == InitSphere /\ [][NextSphere]_vars

\* The roots of the quadratic, found by trying every numerator m over a:
\* a (m/a)^2 + 2 half_b (m/a) + c = 0  iff  m^2 + 2 half_b m + a c = 0
Roots(sp, r) ==
    LET a == QuadA(sp, r)
        hb == QuadHalfB(sp, r)
        c == QuadC(sp, r)
        B == Abs(hb) + ISqrt(hb * hb + Abs(a * c)) + 1
    IN  {FDiv(m, a) : m \in {k \in (-B)..B : k * k + 2 * hb * k + a * c = 0}}

SmallerRoot(sp, r) == CHOOSE t \in Roots(sp, r) : \A q \in Roots(sp, r) : FLe(t, q)
LargerRoot(sp, r) == CHOOSE t \in Roots(sp, r) : \A q \in Roots(sp, r) : FLe(q, t)

InRange(t, t_min, t_max) == FLe(t_min, t) /\ FLe(t, t_max)

HitsAt(res, t) == res.hit /\ FEq(res.dist, t)

SphereDone == gin.fn = "Sphere::intersects" /\ gout # Null

\* C9: Sphere::intersects returns no hit when the quadratic has no real root
\* (negative discriminant); otherwise the smaller root if it lies in
\* [t_min, t_max], else the larger root if it lies in [t_min, t_max], else no
\* hit.  The ray from (0,0,-2r) toward the origin hits the origin-centered sphere
\* of radius r at distance r, and a ray starting strictly inside a sphere, with
\* t_min = 0 and t_max unbounded, hits at the larger root.
C9_RootSelection ==
    SphereDone =>
        LET sp == gin.sphere
            r == gin.ray
            lo == SmallerRoot(sp, r)
            hi == LargerRoot(sp, r)
        IN  /\ Roots(sp, r) = {} => ~gout.hit
            /\ Roots(sp, r) # {} =>
                IF InRange(lo, gin.t_min, gin.t_max) THEN HitsAt(gout, lo)
                ELSE IF InRange(hi, gin.t_min, gin.t_max) THEN HitsAt(gout, hi)
                ELSE ~gout.hit
            /\ ( /\ sp.center = <<0, 0, 0>>
                 /\ r.origin = <<0, 0, -2 * sp.radius>>
                 /\ r.dir = <<0, 0, 1>>
                 /\ InRange(FInt(sp.radius), gin.t_min, gin.t_max) )
               => HitsAt(gout, FInt(sp.radius))
            /\ ( /\ QuadC(sp, r) < 0
                 /\ gin.t_min = FInt(0)
                 /\ gin.t_max = PosInf )
               => /\ HitsAt(gout, hi)
                  /\ FLt(lo, FInt(0))

\* a ray starting strictly inside a sphere has been answered with the larger root
C9_Witness ==
    /\ SphereDone
    /\ QuadC(gin.sphere, gin.ray) < 0
    /\ gin.t_min = FInt(0)
    /\ gin.t_max = PosInf
    /\ gout.hit
    /\ FEq(gout.dist, LargerRoot(gin.sphere, gin.ray))
    /\ ~FEq(gout.dist, SmallerRoot(gin.sphere, gin.ray))

-----------------------------------------------------------------------------
(* Triangle::intersects applied to triangles and rays on a small integer grid *)

\* per leg length: a triangle in the plane z = 0, the same triangle wound the
\* other way, and a slanted one; and one triangle of zero area
TriangleSet ==
    UNION {{Triangle("matte", <<0, 0, 0>>, <<l, 0, 0>>, <<0, l, 0>>),
            Triangle("matte", <<0, 0, 0>>, <<0, l, 0>>, <<l, 0, 0>>),
            Triangle("matte", <<l, 0, 0>>, <<0, l, 0>>, <<0, 0, l>>)} : l \in 1..MaxLeg}
    \cup {Triangle("matte", <<0, 0, 0>>, <<1, 0, 0>>, <<2, 0, 0>>)}

InitTriangle ==
    /\ \E tr \in TriangleSet, o \in Vec3s(-1..MaxLeg), d \in Dirs, rg \in RangeSet :
        gin = [fn |-> "Triangle::intersects", triangle |-> tr, ray |-> RayNew(o, d),
               t_min |-> rg.t_min, t_max |-> rg.t_max]
    /\ gout = Null
    /\ args = Null /\ caller = "lib" /\ scene = Null /\ renderer = Null
    /\ pc = "geometry"
    /\ IdleRender
    /\ IdleTrace

TriangleIntersectsCall ==
    /\ gin.fn = "Triangle::intersects"
    /\ gout = Null
    /\ gout' = TriangleIntersects(gin.triangle, gin.ray, gin.t_min, gin.t_max)
    /\ UNCHANGED <<gin, traceLog>>
    /\ UNCHANGED renderVars

NextTriangle == TriangleIntersectsCall

SpecTriangle == InitTriangle /\ [][NextTriangle]_vars

\* the plane of the triangle: points p with (p - x) . n = 0
PlaneNormal(tr) == Cross(VSub(tr.y, tr.x), VSub(tr.z, tr.x))

NonDegenerate(tr) == PlaneNormal(tr) # <<0, 0, 0>>

CrossesPlane(tr, r) == Dot(r.dir, PlaneNormal(tr)) # 0

\* the parameter at which the ray crosses the plane
CrossingT(tr, r) ==
    FDiv(Dot(VSub(tr.x, r.origin), PlaneNormal(tr)), Dot(r.dir, PlaneNormal(tr)))

\* The crossing point p solves p - x = u e1 + v e2; by Cramer's rule on the Gram
\* matrix of e1, e2 the barycentric coordinates are un / (D den) and vn / (D den).
InsideTriangle(tr, r) ==
    LET t == CrossingT(tr, r)
        e1 == VSub(tr.y, tr.x)
        e2 == VSub(tr.z, tr.x)
        w == VSub(GetPoint(r, t).num, VScale(tr.x, t.d))
        d00 == Dot(e1, e1)
        d01 == Dot(e1, e2)
        d11 == Dot(e2, e2)
        D == d00 * d11 - d01 * d01
        un == d11 * Dot(w, e1) - d01 * Dot(w, e2)
        vn == d00 * Dot(w, e2) - d01 * Dot(w, e1)
    IN  un >= 0 /\ vn >= 0 /\ un + vn <= D * t.d

\* the ray passes through the centroid (x + y + z) / 3 in front of its origin
ThroughCentroid(tr, r) ==
    LET g == VSub(VAdd(VAdd(tr.x, tr.y), tr.z), VScale(r.origin, 3))
    IN  Cross(g, r.dir) = <<0, 0, 0>> /\ Dot(g, r.dir) > 0

TriangleDone == gin.fn = "Triangle::intersects" /\ gout # Null

CrossingInRange ==
    /\ NonDegenerate(gin.triangle)
    /\ CrossesPlane(gin.triangle, gin.ray)
    /\ FLe(FInt(0), CrossingT(gin.triangle, gin.ray))
    /\ InRange(CrossingT(gin.triangle, gin.ray), gin.t_min, gin.t_max)

\* the determinant edge1 . (dir x edge2) of Triangle::intersects is -(dir . n)
AboveEpsilon == Abs(Dot(gin.ray.dir, PlaneNormal(gin.triangle))) >= DetEpsilon

\* C10 as stated: for every non-degenerate triangle and every ray that crosses
\* its plane in front of the origin within [t_min, t_max], Triangle::intersects
\* returns a hit exactly when the crossing point has barycentric coordinates
\* u >= 0, v >= 0, u + v <= 1; a ray through the centroid hits, from either side.
C10_BarycentricHit ==
    (TriangleDone /\ CrossingInRange) =>
        /\ gout.hit <=> InsideTriangle(gin.triangle, gin.ray)
        /\ ThroughCentroid(gin.triangle, gin.ray) => gout.hit

\* C10 amended: the same, for the triangles and rays whose determinant
\* edge1 . (dir x edge2) is at least EPSILON = 1e-8 in absolute value; the hit is
\* reported at the crossing parameter.  Below EPSILON Triangle::intersects
\* reports no hit.
C10_BarycentricHitAboveEpsilon ==
    /\ (TriangleDone /\ CrossingInRange /\ AboveEpsilon) =>
        /\ gout.hit <=> InsideTriangle(gin.triangle, gin.ray)
        /\ ThroughCentroid(gin.triangle, gin.ray) => gout.hit
        /\ gout.hit => FEq(gout.dist, CrossingT(gin.triangle, gin.ray))
    /\ (TriangleDone /\ ~AboveEpsilon) => ~gout.hit

\* a ray through the centroid, arriving from the side the normal e1 x e2 points
\* away from, has been answered with a hit
C10_Witness ==
    /\ TriangleDone
    /\ CrossingInRange
    /\ AboveEpsilon
    /\ ThroughCentroid(gin.triangle, gin.ray)
    /\ Dot(gin.ray.dir, PlaneNormal(gin.triangle)) > 0
    /\ gout.hit

\* a ray crossing the plane outside the triangle has been answered with no hit
C10_WitnessOutside ==
    /\ TriangleDone
    /\ CrossingInRange
    /\ AboveEpsilon
    /\ ~InsideTriangle(gin.triangle, gin.ray)
    /\ ~gout.hit

-----------------------------------------------------------------------------
(* Bvh: construction and traversal *)

\* config::bvh, one record per choice of the four constants the build reads
BvhConfigs ==
    {[MIN_PRIMITIVES_FOR_SPLIT |-> 4, MAX_DEPTH |-> 64,
      TRAVERSAL_COST |-> 1, INTERSECTION_COST |-> 1],
     [MIN_PRIMITIVES_FOR_SPLIT |-> 3, MAX_DEPTH |-> 1,
      TRAVERSAL_COST |-> 1, INTERSECTION_COST |-> 2]}

\* Aabb::surface_area
SurfaceArea(box) ==
    LET dx == box.max[1] - box.min[1]
        dy == box.max[2] - box.min[2]
        dz == box.max[3] - box.min[3]
    IN  2 * (dx * dy + dy * dz + dz * dx)

\* a node whose box is shrunk to the min corner of the surrounding box
BvhNodeMinCorner(left, right, aabb) ==
    [kind |-> "bvh", left |-> left, right |-> right,
     aabb |-> [min |-> aabb.min, max |-> aabb.min]]

\* Bvh { left, right, aabb }
BvhNode(left, right, aabb) ==
    [kind |-> "bvh", left |-> left, right |-> right, aabb |-> aabb]

\* Geometry::get_bounding_box of a sphere, a triangle or a node
GetBoundingBox(o) ==
    CASE o.kind = "sphere" -> SphereBoundingBox(o)
      [] o.kind = "triangle" -> TriangleBoundingBox(o)
      [] o.kind = "bvh" -> AabbNew(o.aabb.min, o.aabb.max)

\* the box surrounding objects[1..i], folded from the first object on
RECURSIVE BoundsUpTo(_, _)
BoundsUpTo(objects, i) ==
    IF i = 1 THEN GetBoundingBox(objects[1])
    ELSE GetSurroundingAabb(BoundsUpTo(objects, i - 1), GetBoundingBox(objects[i]))

BoundsOf(objects) == BoundsUpTo(objects, Len(objects))

\* twice the center of the bounding box on an axis: (min + max) * 0.5 orders alike
CenterKey(o, axis) == GetBoundingBox(o).min[axis] + GetBoundingBox(o).max[axis]

\* a sort that writes the object of the smallest center into every place
SortByCenterSmearing(objects, axis) ==
    LET n == Len(objects)
        first == CHOOSE i \in 1..n :
                    \A j \in 1..n : CenterKey(objects[i], axis) <= CenterKey(objects[j], axis)
    IN  [k \in 1..n |-> objects[first]]

\* slice::sort_by on the centers: a stable sort
SortByCenter(objects, axis) ==
    LET n == Len(objects)
        before(j, i) ==
            \/ CenterKey(objects[j], axis) < CenterKey(objects[i], axis)
            \/ CenterKey(objects[j], axis) = CenterKey(objects[i], axis) /\ j < i
        rank(i) == 1 + Cardinality({j \in 1..n : before(j, i)})
    IN  [k \in 1..n |-> objects[CHOOSE i \in 1..n : rank(i) = k]]

\* a split search that answers with the front of the list
FindBestSplitAtFront(objects, cfg) == [axis |-> 1, index |-> 0]

\* Bvh::find_best_split_simplified; axes are 1..3 here, 0..2 in the code.  An
\* extent of the integer grid is below f64::EPSILON exactly when it is not positive,
\* and costs are compared as numerators over the common total_area.
FindBestSplitSimplified(objects, cfg) ==
    LET n == Len(objects)
        total_bounds == BoundsOf(objects)
        extent == [i \in Axes |-> total_bounds.max[i] - total_bounds.min[i]]
        total_area == SurfaceArea(total_bounds)
        test_splits == <<n \div 4, n \div 2, (3 * n) \div 4>>
        axisOf(k) == ((k - 1) \div 3) + 1
        splitOf(k) == test_splits[((k - 1) % 3) + 1]
        tested == {k \in 1..9 : /\ extent[axisOf(k)] > 0
                                /\ splitOf(k) # 0
                                /\ splitOf(k) < n}
        cost(k) ==
            LET sorted == SortByCenter(objects, axisOf(k))
                left_area == SurfaceArea(BoundsOf(SubSeq(sorted, 1, splitOf(k))))
                right_area == SurfaceArea(BoundsOf(SubSeq(sorted, splitOf(k) + 1, n)))
            IN  cfg.TRAVERSAL_COST * total_area
                + (left_area * splitOf(k) + right_area * (n - splitOf(k)))
                  * cfg.INTERSECTION_COST
        best == CHOOSE k \in tested :
                    \A j \in tested : /\ cost(k) <= cost(j)
                                      /\ j < k => cost(k) < cost(j)
    IN  IF \A i \in Axes : extent[i] <= 0 THEN [axis |-> 1, index |-> n \div 2]
        ELSE IF total_area <= 0 THEN [axis |-> 1, index |-> n \div 2]
        ELSE IF tested = {} THEN [axis |-> 1, index |-> n \div 2]
        ELSE [axis |-> axisOf(best), index |-> splitOf(best)]

\* the longest axis as Bvh::median_split picks it
LongestAxis(objects) ==
    LET bounds == BoundsOf(objects)
        extent == [i \in Axes |-> bounds.max[i] - bounds.min[i]]
    IN  IF extent[1] > extent[2] /\ extent[1] > extent[3] THEN 1
        ELSE IF extent[2] > extent[3] THEN 2
        ELSE 3

\* the panic of unreachable!("BVH construction called with empty object list")
Unreachable == [kind |-> "unreachable"]

\* Bvh::construct_recursive, with Bvh::median_split as its third arm; a panic in
\* the build of the left or of the right subtree unwinds through the callers
RECURSIVE ConstructRecursive(_, _, _)
ConstructRecursive(objects, depth, cfg) ==
    LET n == Len(objects)
        node(sorted, at) ==
            LET left == ConstructRecursive(SubSeq(sorted, 1, at), depth + 1, cfg)
                right == ConstructRecursive(SubSeq(sorted, at + 1, n), depth + 1, cfg)
            IN  IF left = Unreachable THEN Unreachable
                ELSE IF right = Unreachable THEN Unreachable
                ELSE BvhNode(left, right,
                             GetSurroundingAabb(GetBoundingBox(left),
                                                GetBoundingBox(right)))
    IN  IF n = 0 THEN Unreachable
        ELSE IF n = 1 THEN objects[1]
        ELSE IF n = 2
        THEN BvhNode(objects[1], objects[2],
                     GetSurroundingAabb(GetBoundingBox(objects[1]),
                                        GetBoundingBox(objects[2])))
        ELSE IF n < cfg.MIN_PRIMITIVES_FOR_SPLIT \/ depth >= cfg.MAX_DEPTH
        THEN node(SortByCenter(objects, LongestAxis(objects)), n \div 2)
        ELSE LET split == FindBestSplitSimplified(objects, cfg)
             IN  node(SortByCenter(objects, split.axis), split.index)

\* Bvh::construct
Construct(objects, cfg) == ConstructRecursive(objects, 0, cfg)

\* Geometry::intersects, dispatched on the object; the last arm is Bvh::intersects
RECURSIVE Intersects(_, _, _, _)
Intersects(o, r, t_min, t_max) ==
    IF o.kind = "sphere" THEN SphereIntersects(o, r, t_min, t_max)
    ELSE IF o.kind = "triangle" THEN TriangleIntersects(o, r, t_min, t_max)
    ELSE IF ~AabbIntersects(o.aabb, r, t_min, t_max) THEN NoHit
    ELSE LET r1 == Intersects(o.left, r, t_min, t_max)
         IN  IF ~r1.hit THEN Intersects(o.right, r, t_min, t_max)
             ELSE LET r2 == Intersects(o.right, r, t_min, r1.dist)
                  IN  IF r2.hit THEN r2 ELSE r1

\* CornellBox { root }
CornellBoxRoot(root) == [kind |-> "scene", root |-> <<root>>]

-----------------------------------------------------------------------------
(* Bvh::construct on lists of primitives, then Bvh::intersects on rays *)

MaxPrimitives == 4

\* two touching spheres, a triangle behind them, a larger one behind that, and a
\* slanted triangle cutting through
Pool ==
    <<Sphere("m1", 1, <<0, 0, 0>>),
      Sphere("m2", 1, <<2, 0, 0>>),
      Triangle("m3", <<0, 0, 2>>, <<2, 0, 2>>, <<0, 2, 2>>),
      Triangle("m4", <<-1, -1, 3>>, <<3, -1, 3>>, <<-1, 3, 3>>),
      Triangle("m5", <<2, 0, 0>>, <<0, 2, 0>>, <<0, 0, 2>>)>>

\* the lists of up to MaxPrimitives distinct primitives of the pool, in any order
ObjectLists ==
    {[i \in 1..Len(ix) |-> Pool[ix[i]]] :
        ix \in {q \in UNION {[1..n -> DOMAIN Pool] : n \in 1..MaxPrimitives} :
                    \A i, j \in DOMAIN q : i # j => q[i] # q[j]}}

BvhOrigins == {<<x, y, z>> : x \in -1..3, y \in -1..2, z \in {-3, 1}}

BvhDirs ==
    {<<x, y, 1>> : x \in -1..1, y \in -1..1} \cup {<<1, 0, 0>>, <<-1, 0, 0>>, <<0, 1, 0>>}

InitBvh ==
    /\ \E objects \in ObjectLists, cfg \in BvhConfigs :
        gin = [fn |-> "Bvh::construct", objects |-> objects, cfg |-> cfg]
    /\ gout = Null
    /\ args = Null /\ caller = "lib" /\ scene = Null /\ renderer = Null
    /\ pc = "geometry"
    /\ IdleRender
    /\ IdleTrace

ConstructCall ==
    /\ gin.fn = "Bvh::construct"
    /\ scene = Null
    /\ scene' = CornellBoxRoot(Construct(gin.objects, gin.cfg))
    /\ UNCHANGED <<args, caller, renderer, num_threads, pc, tasks, pixels, processed>>
    /\ UNCHANGED <<gin, gout, traceLog>>

\* a ray is kept when f64::sqrt is exact on the discriminant of every sphere
BvhIntersectsCall ==
    /\ gin.fn = "Bvh::construct"
    /\ scene # Null
    /\ \E o \in BvhOrigins, d \in BvhDirs, rg \in RangeSet :
        /\ \A i \in DOMAIN gin.objects :
              gin.objects[i].kind = "sphere" => RationalRoots(gin.objects[i], RayNew(o, d))
        /\ gin' = [fn |-> "Bvh::intersects", objects |-> gin.objects, cfg |-> gin.cfg,
                   ray |-> RayNew(o, d), t_min |-> rg.t_min, t_max |-> rg.t_max]
        /\ gout' = Intersects(scene.root[1], RayNew(o, d), rg.t_min, rg.t_max)
    /\ UNCHANGED renderVars
    /\ UNCHANGED traceLog

NextBvh == ConstructCall \/ BvhIntersectsCall

SpecBvh == InitBvh /\ [][NextBvh]_vars

BvhDone == gin.fn = "Bvh::intersects" /\ gout # Null

\* the primitives a linear scan finds hit in the range
ScanHits ==
    {i \in DOMAIN gin.objects :
        Intersects(gin.objects[i], gin.ray, gin.t_min, gin.t_max).hit}

ScanDist(i) == Intersects(gin.objects[i], gin.ray, gin.t_min, gin.t_max).dist

MatchesLinearScan ==
    /\ gout.hit <=> ScanHits # {}
    /\ gout.hit =>
        \E i \in ScanHits : /\ FEq(gout.dist, ScanDist(i))
                            /\ \A j \in ScanHits : FLe(ScanDist(i), ScanDist(j))

\* C6: for every non-empty list of primitives, every ray and every range,
\* intersects on the tree built by Bvh::construct returns a hit exactly when a
\* linear scan over the primitives finds one in the range, and the returned
\* distance is the minimum hit distance of the linear scan.
C6_BvhMatchesLinearScan == BvhDone => MatchesLinearScan

\* the tree agrees with the linear scan for the rays without a zero direction
\* component, on which Aabb::intersects is exact
C6_MatchesWithoutZeroComponent ==
    (BvhDone /\ \A i \in Axes : gin.ray.dir[i] # 0) => MatchesLinearScan

\* the tree built from four primitives by the cost-based split has answered a ray
\* with the nearer of two primitives' hits
C6_NearestOfTwo ==
    /\ BvhDone
    /\ Len(gin.objects) = 4
    /\ gin.cfg.MIN_PRIMITIVES_FOR_SPLIT = 4
    /\ Cardinality(ScanHits) >= 2
    /\ gout.hit
    /\ \E i \in ScanHits : FLt(gout.dist, ScanDist(i))

-----------------------------------------------------------------------------
(* f64 arithmetic on fractions, and colors as triples of fractions *)

RECURSIVE Gcd(_, _)
Gcd(a, b) == IF b = 0 THEN a ELSE Gcd(b, a % b)

\* the same value in lowest terms
FNorm(a) ==
    IF a.d = 0 THEN a
    ELSE LET g == Gcd(Abs(a.n), a.d) IN [n |-> a.n \div g, d |-> a.d \div g]

FNeg(a) == [n |-> -a.n, d |-> a.d]

\* a * b on f64: 0 * inf and anything with NaN are NaN
FMul(a, b) ==
    IF IsNaN(a) \/ IsNaN(b) THEN NaN
    ELSE IF a.d = 0 \/ b.d = 0 THEN [n |-> Sign(a.n) * Sign(b.n), d |-> 0]
    ELSE FNorm([n |-> a.n * b.n, d |-> a.d * b.d])

\* a + b on f64: inf - inf and anything with NaN are NaN
FAdd(a, b) ==
    IF IsNaN(a) \/ IsNaN(b) THEN NaN
    ELSE IF a.d = 0 /\ b.d = 0 THEN (IF a.n = b.n THEN a ELSE NaN)
    ELSE IF a.d = 0 THEN a
    ELSE IF b.d = 0 THEN b
    ELSE FNorm([n |-> a.n * b.d + b.n * a.d, d |-> a.d * b.d])

\* a / b on f64: x / 0 is an infinity of x's sign, 0 / 0 and inf / inf are NaN
FQuot(a, b) ==
    IF IsNaN(a) \/ IsNaN(b) THEN NaN
    ELSE IF b.d = 0 THEN (IF a.d = 0 THEN NaN ELSE FInt(0))
    ELSE IF b.n = 0 THEN [n |-> Sign(a.n), d |-> 0]
    ELSE IF a.d = 0 THEN [n |-> a.n * Sign(b.n), d |-> 0]
    ELSE FNorm(FDiv(a.n * b.d, a.d * b.n))

\* f64::powf for a whole exponent e >= 0
RECURSIVE FPow(_, _)
FPow(a, e) == IF e = 0 THEN FInt(1) ELSE FMul(a, FPow(a, e - 1))

\* std::f64::consts::FRAC_1_PI, taken as the fraction 7/22
FRAC_1_PI == [n |-> 7, d |-> 22]

\* Color::zeros(), Color::repeat(x), and the operators of Vector3<f64>
Black == <<FInt(0), FInt(0), FInt(0)>>
ColorRepeat(x) == <<x, x, x>>
ColorAdd(a, b) == [i \in Axes |-> FAdd(a[i], b[i])]
ColorScale(a, k) == [i \in Axes |-> FMul(a[i], k)]
ColorOver(a, k) == [i \in Axes |-> FQuot(a[i], k)]
ComponentMul(a, b) == [i \in Axes |-> FMul(a[i], b[i])]

\* the components of a color returned by trace: Zeros stands for Color::zeros()
Components(c) == IF c = Zeros THEN Black ELSE c

-----------------------------------------------------------------------------
(* Brdf *)

\* Lambertian { kd, cd }, GlossySpecular { ks, exp, cs }, PerfectSpecular { kr, cr }
Lambertian(kd, cd) == [kd |-> kd, cd |-> cd]
GlossySpecular(ks, exp, cs) == [ks |-> ks, exp |-> exp, cs |-> cs]
PerfectSpecular(kr, cr) == [kr |-> kr, cr |-> cr]

\* Lambertian::rho and Lambertian::f
LambertianRho(b) == ColorScale(b.cd, b.kd)
LambertianF(b) == ColorScale(LambertianRho(b), FRAC_1_PI)

\* the mirror direction normal * (2 normal . w) - w
Mirror(normal, w) == VSub(VScale(normal, 2 * Dot(normal, w)), w)

\* GlossySpecular::f(hit, wi), with wo = -hit.ray.dir
GlossySpecularF(b, hit, wi) ==
    LET wo == VScale(hit.ray.dir, -1)
        ndotwi == Max2(Dot(hit.normal, wi), 0)
        r == VSub(VScale(hit.normal, 2 * ndotwi), wi)
        rdotwo == Dot(r, wo)
    IN  IF rdotwo <= 0 THEN Black
        ELSE ColorRepeat(FMul(b.ks, FPow(FInt(rdotwo), b.exp)))

\* GlossySpecular::sample_f.  hit.sample is the direction sp.x u + sp.y v + sp.z w
\* drawn around the mirror direction w = r; the second direction, taken when every
\* component of the first is negative, is 2 sp.z w minus the first, here times the
\* positive r . r (1 for unit directions).  Returns wi, pdf and the color fr.
GlossySpecularSampleF(b, hit) ==
    LET wo == VScale(hit.ray.dir, -1)
        r == Mirror(hit.normal, wo)
        first == hit.sample
        wi == IF \A i \in Axes : first[i] < 0
              THEN VSub(VScale(r, 2 * Dot(r, first)), VScale(first, Dot(r, r)))
              ELSE first
        phong_lobe == FPow(FInt(Dot(r, wi)), b.exp)
    IN  [wi |-> wi,
         pdf |-> FMul(phong_lobe, FInt(Dot(hit.normal, wi))),
         fr |-> ColorScale(ColorScale(b.cs, b.ks), phong_lobe)]

\* PerfectSpecular::sample_f
PerfectSpecularSampleF(b, hit, wi) ==
    ColorOver(ColorScale(b.cr, b.kr), FInt(Dot(hit.normal, wi)))

-----------------------------------------------------------------------------
(* Material *)

Emissive(ls, ce) == [kind |-> "emissive", ls |-> ls, ce |-> ce]
Matte(ambient_brdf, diffuse_brdf) ==
    [kind |-> "matte", ambient_brdf |-> ambient_brdf, diffuse_brdf |-> diffuse_brdf]
Phong(ambient_brdf, diffuse_brdf, specular_brdf) ==
    [kind |-> "phong", ambient_brdf |-> ambient_brdf, diffuse_brdf |-> diffuse_brdf,
     specular_brdf |-> specular_brdf]
Reflective(ambient_brdf, diffuse_brdf, specular_brdf, reflective_brdf) ==
    [kind |-> "reflective", ambient_brdf |-> ambient_brdf,
     diffuse_brdf |-> diffuse_brdf, specular_brdf |-> specular_brdf,
     reflective_brdf |-> reflective_brdf]

\* Emissive::radiance
EmissiveRadiance(m) == ColorScale(m.ce, m.ls)

\* Material::emissive: the trait's default for Phong, overridden by the others
IsEmissive(m) ==
    CASE m.kind = "emissive" -> TRUE
      [] m.kind = "matte" -> FALSE
      [] m.kind = "reflective" -> FALSE
      [] OTHER -> FALSE

\* Material::ambient.  Matte (from its diffuse brdf) and Reflective multiply their
\* rho by the ambient light's radiance themselves, Phong returns rho
MaterialAmbient(m, hit) ==
    CASE m.kind = "matte" -> ComponentMul(LambertianRho(m.diffuse_brdf), hit.ambient_radiance)
      [] m.kind = "phong" -> LambertianRho(m.ambient_brdf)
      [] m.kind = "reflective" ->
            ComponentMul(LambertianRho(m.ambient_brdf), hit.ambient_radiance)
      [] OTHER -> Black

\* Material::diffuse
MaterialDiffuse(m, hit, wi) ==
    IF m.kind \in {"matte", "phong", "reflective"} THEN LambertianF(m.diffuse_brdf)
    ELSE Black

\* Material::specular
MaterialSpecular(m, hit, wi) ==
    IF m.kind \in {"phong", "reflective"} THEN GlossySpecularF(m.specular_brdf, hit, wi)
    ELSE Black

\* the color hit.renderer.trace(reflected_ray, hit.depth + 1) returns: black past
\* max_depth, else hit.traced, what the reflected ray's own hit shades to
TraceReflected(hit) ==
    IF DepthExceeded(hit.depth + 1, hit.max_depth) THEN Black ELSE hit.traced

\* Material::reflective: Phong::reflective and Reflective::reflective
MaterialReflective(m, hit) ==
    CASE m.kind = "phong" ->
            LET s == GlossySpecularSampleF(m.specular_brdf, hit)
            IN  ColorOver(ColorScale(ComponentMul(TraceReflected(hit), s.fr),
                                     FInt(Dot(hit.normal, s.wi))),
                          s.pdf)
      [] m.kind = "reflective" ->
            LET wo == VScale(hit.ray.dir, -1)
                wi == Mirror(hit.normal, wo)
                fr == PerfectSpecularSampleF(m.reflective_brdf, hit, wi)
            IN  ColorScale(ComponentMul(TraceReflected(hit), fr),
                           FInt(Dot(hit.normal, wi)))
      [] OTHER -> Black

\* one pass of shade's loop over the lights, from light i on, total_color so far
RECURSIVE ShadeLights(_, _, _, _, _)
ShadeLights(m, hit, i, total_color, reflective) ==
    IF i > Len(hit.lights) THEN total_color
    ELSE LET light == hit.lights[i]
             wi == light.direction
             ndotwi == Dot(hit.normal, wi)
             material_response ==
                 ColorAdd(MaterialDiffuse(m, hit, wi), MaterialSpecular(m, hit, wi))
             light_contribution ==
                 ColorScale(ColorScale(light.radiance, light.shadow), FInt(ndotwi))
             lit == ColorAdd(total_color,
                             ComponentMul(material_response, light_contribution))
         IN  IF ndotwi <= 0 THEN ShadeLights(m, hit, i + 1, total_color, reflective)
             ELSE IF light.radiance = Black
             THEN ShadeLights(m, hit, i + 1, total_color, reflective)
             ELSE IF FEq(light.shadow, FInt(0))
             THEN ShadeLights(m, hit, i + 1, total_color, reflective)
             ELSE ShadeLights(m, hit, i + 1,
                              IF \E c \in Axes : ~FEq(reflective[c], FInt(0))
                              THEN ColorAdd(lit, reflective)
                              ELSE lit,
                              reflective)

\* shade(m, hit) starting from black, the ambient term left out
ShadeNoAmbient(m, hit) ==
    ShadeLights(m, hit, 1, Black, MaterialReflective(m, hit))

\* the generic shade(m, hit)
Shade(m, hit) ==
    ShadeLights(m, hit, 1,
                ComponentMul(MaterialAmbient(m, hit), hit.ambient_radiance),
                MaterialReflective(m, hit))

\* Material::shade without Emissive's override
MaterialShadeGeneric(m, hit) == Shade(m, hit)

\* Material::shade: Emissive overrides it, the other materials use shade(m, hit)
MaterialShade(m, hit) ==
    IF m.kind = "emissive" THEN EmissiveRadiance(m) ELSE Shade(m, hit)

\* the Hit that trace builds from the record of the nearest intersection: the
\* normal is reverted when the inside of the surface was hit (signum(0.0) = 1.0)
TraceHit(record, ray, depth, max_depth, env) ==
    LET wo == VScale(ray.dir, -1)
        signum == IF Dot(record.normal, wo) < 0 THEN -1 ELSE 1
    IN  [ray |-> ray, normal |-> VScale(record.normal, signum), depth |-> depth,
         max_depth |-> max_depth, lights |-> env.lights,
         ambient_radiance |-> env.ambient_radiance, traced |-> env.traced,
         sample |-> env.sample]

-----------------------------------------------------------------------------
(* Renderer::trace on a ray whose nearest hit is given, shading included *)

MaxLights == 2

White == ColorRepeat(FInt(1))
Tint == <<FInt(1), FDiv(1, 2), FInt(0)>>

ShadeMaterials ==
    {Emissive(FInt(2), Tint),
     Matte(Lambertian(FDiv(1, 4), White), Lambertian(FDiv(1, 2), Tint)),
     Phong(Lambertian(FDiv(1, 4), White), Lambertian(FDiv(1, 2), Tint),
           GlossySpecular(FDiv(1, 4), 2, White)),
     Reflective(Lambertian(FDiv(1, 4), White), Lambertian(FDiv(1, 2), White),
                GlossySpecular(FDiv(1, 4), 1, White), PerfectSpecular(FDiv(3, 4), White))}

\* what a light's get_direction, radiance and shadow_amount return at the hit: a
\* lit one, a half-shadowed one, one behind the surface, a black one and a fully
\* shadowed one
ShadeLightSet ==
    {[direction |-> <<0, 0, 1>>, radiance |-> White, shadow |-> FInt(1)],
     [direction |-> <<1, 0, 1>>, radiance |-> Tint, shadow |-> FDiv(1, 2)],
     [direction |-> <<0, 0, -1>>, radiance |-> White, shadow |-> FInt(1)],
     [direction |-> <<0, 0, 1>>, radiance |-> Black, shadow |-> FInt(1)],
     [direction |-> <<0, 1, 1>>, radiance |-> White, shadow |-> FInt(0)]}

LightLists == UNION {[1..n -> ShadeLightSet] : n \in 0..MaxLights}

\* the record of the nearest intersection, or none
ShadeRecords ==
    {[hit |-> TRUE, material |-> m, normal |-> nrm] :
        m \in ShadeMaterials, nrm \in {<<0, 0, 1>>, <<0, 0, -1>>}}
    \cup {NoHit}

\* head-on, oblique, along the tangent plane, and from a corner
ShadeRayDirs == {<<0, 0, -1>>, <<1, 0, -1>>, <<1, 0, 0>>, <<-1, -1, -1>>}

SampleDirs == {<<0, 0, 1>>, <<1, 0, 1>>, <<1, 0, -1>>, <<-1, -1, -1>>}

\* sp.z = cos_theta > 0 puts the first sampled direction in the hemisphere around
\* the mirror direction; the direction used is taken off the tangent plane
SampleAround(record, dir, sample) ==
    LET hit == TraceHit(record, RayNew(<<0, 0, 0>>, dir), 0, 0,
                        [lights |-> <<>>, ambient_radiance |-> Black,
                         traced |-> Black, sample |-> sample])
        r == Mirror(hit.normal, VScale(dir, -1))
    IN  /\ Dot(r, sample) > 0
        /\ Dot(hit.normal, GlossySpecularSampleF(GlossySpecular(FInt(1), 1, White),
                                                 hit).wi) # 0

InitShade ==
    /\ args \in {a \in ArgSet : a.width = 1 /\ a.height = 1 /\ a.samples = 1}
    /\ caller = "lib"
    /\ renderer = RendererNew(args)
    /\ \E record \in ShadeRecords, lights \in LightLists :
        scene = [kind |-> "scene", record |-> record, lights |-> lights,
                 ambient_radiance |-> White]
    /\ \E dir \in ShadeRayDirs, k \in {0, 1, 2}, traced \in {Black, White},
          sample \in SampleDirs :
        /\ scene.record.hit => SampleAround(scene.record, dir, sample)
        /\ gin = [fn |-> "Renderer::trace", ray |-> RayNew(<<0, 0, 0>>, dir),
                  depth |-> IF k = 0 THEN 0 ELSE renderer.max_depth + k - 1,
                  traced |-> traced, sample |-> sample]
    /\ gout = Null
    /\ pc = "ready"
    /\ IdleRender
    /\ IdleTrace

ShadeTraceCall ==
    /\ gin.fn = "Renderer::trace"
    /\ traceLog = Null
    /\ traceLog' =
        IF ~scene.record.hit
        THEN [depth |-> gin.depth, hit |-> "none",
              result |-> Trace(renderer, gin.depth, "none", Black)]
        ELSE [depth |-> gin.depth, hit |-> scene.record.material.kind,
              result |-> Trace(renderer, gin.depth, scene.record.material.kind,
                               MaterialShade(scene.record.material,
                                   TraceHit(scene.record, gin.ray, gin.depth,
                                            renderer.max_depth,
                                            [lights |-> scene.lights,
                                             ambient_radiance |-> scene.ambient_radiance,
                                             traced |-> gin.traced,
                                             sample |-> gin.sample])))]
    /\ UNCHANGED renderVars
    /\ UNCHANGED geomVars

NextShade == ShadeTraceCall

SpecShade == InitShade /\ [][NextShade]_vars

\* trace has shaded the material of the nearest hit
Shaded ==
    /\ gin # Null
    /\ gin.fn = "Renderer::trace"
    /\ traceLog # Null
    /\ traceLog.hit # "none"
    /\ traceLog.depth <= renderer.max_depth

\* C11: when the nearest hit of a traced ray is on an emissive material, trace at
\* depth <= max_depth returns exactly emission color * emission scale, whatever
\* the lights, their shadows, the ambient term and the depth; and only Emissive
\* reports emissive() = true.
C11_EmissiveRadiance ==
    /\ Shaded /\ traceLog.hit = "emissive" =>
        \A i \in Axes :
            Components(traceLog.result.color)[i]
                = FMul(scene.record.material.ce[i], scene.record.material.ls)
    /\ \A m \in ShadeMaterials : IsEmissive(m) <=> m.kind = "emissive"

\* an emissive hit at depth max_depth, with a lit light in the scene, has been
\* answered with the radiance
C11_Witness ==
    /\ Shaded
    /\ traceLog.hit = "emissive"
    /\ traceLog.depth = renderer.max_depth
    /\ \E i \in DOMAIN scene.lights :
        /\ scene.lights[i].radiance = White
        /\ scene.lights[i].shadow = FInt(1)
        /\ scene.lights[i].direction = <<0, 0, 1>>
    /\ traceLog.result.color = <<FInt(2), FInt(1), FInt(0)>>

\* the coefficients, radiances and traced color of the shaded hit are
\* non-negative and every shadow_amount lies in [0, 1]
NonNegative(c) == \A i \in Axes : FLe(FInt(0), c[i])

ValidHitContext ==
    LET m == scene.record.material
    IN  /\ NonNegative(gin.traced)
        /\ NonNegative(scene.ambient_radiance)
        /\ \A i \in DOMAIN scene.lights :
            /\ NonNegative(scene.lights[i].radiance)
            /\ FLe(FInt(0), scene.lights[i].shadow)
            /\ FLe(scene.lights[i].shadow, FInt(1))
        /\ m.kind = "emissive" => FLe(FInt(0), m.ls) /\ NonNegative(m.ce)
        /\ m.kind # "emissive" =>
            /\ FLe(FInt(0), m.diffuse_brdf.kd) /\ NonNegative(m.diffuse_brdf.cd)
            /\ FLe(FInt(0), m.ambient_brdf.kd) /\ NonNegative(m.ambient_brdf.cd)
        /\ m.kind \in {"phong", "reflective"} =>
            FLe(FInt(0), m.specular_brdf.ks) /\ NonNegative(m.specular_brdf.cs)
        /\ m.kind = "reflective" =>
            FLe(FInt(0), m.reflective_brdf.kr) /\ NonNegative(m.reflective_brdf.cr)

\* C12: for every hit context in which the material coefficients, the light
\* radiances and the traced colors are non-negative and every shadow_amount is in
\* [0, 1], shade returns a color whose three components are all >= 0, for every
\* material kind and every number of lights.
C12_ShadeNonNegative ==
    (Shaded /\ ValidHitContext) => NonNegative(Components(traceLog.result.color))

\* no component of the shaded color is below zero (a NaN component is not)
C12_NeverBelowZero ==
    (Shaded /\ ValidHitContext) =>
        \A i \in Axes : ~FLt(Components(traceLog.result.color)[i], FInt(0))

\* the ray does not run along the tangent plane of the surface it hits
OffTangent == Dot(scene.record.normal, gin.ray.dir) # 0

\* off the tangent plane every component is >= 0
C12_NonNegativeOffTangent ==
    (Shaded /\ ValidHitContext /\ OffTangent) =>
        NonNegative(Components(traceLog.result.color))

\* the Hit that the logged trace call shaded
ShadedHit == TraceHit(scene.record, gin.ray, gin.depth, renderer.max_depth,
                      [lights |-> scene.lights,
                       ambient_radiance |-> scene.ambient_radiance,
                       traced |-> gin.traced, sample |-> gin.sample])

\* the trace call went through the generic shade function
GenericShaded ==
    /\ Shaded
    /\ traceLog.result.shaded_hit
    /\ scene.record.material.kind # "emissive"

\* the lights of the hit that shade does not skip
ContributingLights(hit) ==
    {i \in DOMAIN hit.lights :
        /\ Dot(hit.normal, hit.lights[i].direction) > 0
        /\ hit.lights[i].radiance # Black
        /\ ~FEq(hit.lights[i].shadow, FInt(0))}

\* ambient plus the direct contribution of every light, without any reflection
DirectColor(m, hit) ==
    ShadeLights(m, hit, 1,
                ComponentMul(MaterialAmbient(m, hit), hit.ambient_radiance), Black)

\* color c plus k times the color r
RECURSIVE AddTimes(_, _, _)
AddTimes(c, r, k) == IF k = 0 THEN c ELSE AddTimes(ColorAdd(c, r), r, k - 1)

\* C20: the generic shade function adds the material's reflective(hit)
\* contribution to the result exactly once per shade call, whatever the number of
\* lights and whatever number of them are skipped (zero lights and all lights
\* skipped included).
C20_ReflectiveOnce ==
    GenericShaded =>
        Components(traceLog.result.color) =
            AddTimes(DirectColor(scene.record.material, ShadedHit),
                     MaterialReflective(scene.record.material, ShadedHit), 1)

\* what the loop does: reflective(hit) is added once for every light that is not
\* skipped
C20_ReflectivePerContributingLight ==
    GenericShaded =>
        Components(traceLog.result.color) =
            AddTimes(DirectColor(scene.record.material, ShadedHit),
                     MaterialReflective(scene.record.material, ShadedHit),
                     Cardinality(ContributingLights(ShadedHit)))

\* a reflecting hit none of whose lights contributes: the reflection is dropped
C20_ReflectionDropped ==
    /\ GenericShaded
    /\ ContributingLights(ShadedHit) = {}
    /\ MaterialReflective(scene.record.material, ShadedHit) # Black

\* a reflecting hit with two contributing lights: the reflection is added twice
C20_ReflectionDoubled ==
    /\ GenericShaded
    /\ Cardinality(ContributingLights(ShadedHit)) = 2
    /\ NonNegative(MaterialReflective(scene.record.material, ShadedHit))
    /\ MaterialReflective(scene.record.material, ShadedHit) # Black

-----------------------------------------------------------------------------
(* main: validate, create_scene, Renderer::new, render, save_image *)

MAX_DIMENSION == 8192

Ok == [ok |-> TRUE]
Err(e) == [ok |-> FALSE, err |-> e]
ConfigError(msg) == [kind |-> "ConfigError", msg |-> msg]

\* Args::validate with the height limit applied from MAX_DIMENSION on
ValidateHeightInclusive(a) ==
    IF a.width = 0 \/ a.height = 0
    THEN Err("Width and height must be greater than 0")
    ELSE IF a.samples = 0
    THEN Err("Sample count must be greater than 0")
    ELSE IF a.width > MAX_DIMENSION \/ a.height >= MAX_DIMENSION
    THEN Err("Width and height must be 8192 or less")
    ELSE Ok

\* Args::validate
Validate(a) ==
    IF a.width = 0 \/ a.height = 0
    THEN Err("Width and height must be greater than 0")
    ELSE IF a.samples = 0
    THEN Err("Sample count must be greater than 0")
    ELSE IF a.width > MAX_DIMENSION \/ a.height > MAX_DIMENSION
    THEN Err("Width and height must be 8192 or less")
    ELSE Ok

\* RgbImage::from_vec(width, height, buf) on one entry per pixel: None when the
\* buffer is shorter than width * height, else the image over its first
\* width * height entries, row by row
FromVec(width, height, buf) ==
    IF Len(buf) < width * height THEN [kind |-> "None"]
    ELSE [kind |-> "image", width |-> width, height |-> height,
          at |-> [x \in 0..(width - 1), y \in 0..(height - 1) |->
                     buf[y * width + x + 1]]]

\* imageops::flip_horizontal
FlipHorizontal(img) ==
    [img EXCEPT !.at = [x \in 0..(img.width - 1), y \in 0..(img.height - 1) |->
                            img.at[img.width - 1 - x, y]]]

\* save_image: from_vec(...).unwrap() panics on None
SaveImage(px, a) ==
    LET img == FromVec(a.width, a.height, px)
    IN  IF img.kind = "None" THEN [kind |-> "panic", at |-> "unwrap"]
        ELSE [kind |-> "saved", file |-> "output.png", image |-> FlipHorizontal(img)]

\* the command lines: the dimensions the model renders and those around the
\* limit; no samples, one, and two (a count whose draws can fall short)
MainArgSet ==
    [width : (0..MaxWidth) \cup {MAX_DIMENSION, MAX_DIMENSION + 1},
     height : (0..MaxHeight) \cup {MAX_DIMENSION, MAX_DIMENSION + 1},
     samples : {0, 1, 2},
     preview : BOOLEAN]

\* args().run() has parsed the command line
InitMain ==
    /\ args \in MainArgSet
    /\ caller = "main"
    /\ scene = Null
    /\ renderer = Null
    /\ num_threads \in {1, MaxThreads}
    /\ pc = "parsed"
    /\ tasks = <<>>
    /\ pixels = <<>>
    /\ processed = <<>>
    /\ IdleTrace
    /\ IdleGeom

\* args.validate().map_err(RayTracingError::ConfigError)?
MainValidate ==
    /\ pc = "parsed"
    /\ LET v == Validate(args)
       IN  IF v.ok THEN pc' = "validated" /\ gout' = gout
           ELSE /\ pc' = "failed"
                /\ gout' = [fn |-> "main", result |-> Err(ConfigError(v.err))]
    /\ UNCHANGED <<args, caller, scene, renderer, num_threads, tasks, pixels,
                   processed, traceLog, gin>>

\* create_scene(&args) and Renderer::new(scene, &args); a scene larger than the
\* model renders is not followed further
MainCreateScene ==
    /\ pc = "validated"
    /\ args.height <= MaxHeight
    /\ scene' = CreateScene(caller, args)
    /\ renderer' = RendererNew(args)
    /\ pc' = "built"
    /\ UNCHANGED <<args, caller, num_threads, tasks, pixels, processed, traceLog>>
    /\ UNCHANGED geomVars

\* renderer.render() up to the start of its chunk tasks
MainRender ==
    /\ pc = "built"
    /\ tasks' = StartTasks(TotalPixels(scene), num_threads)
    /\ processed' = [n \in 0..(TotalPixels(scene) - 1) |-> <<>>]
    /\ pc' = "rendering"
    /\ UNCHANGED <<args, caller, scene, renderer, num_threads, pixels, traceLog>>
    /\ UNCHANGED geomVars

\* save_image(&pixels, &args)?
MainSaveImage ==
    /\ pc = "done"
    /\ gout' = [fn |-> "main", result |-> SaveImage(pixels, args)]
    /\ pc' = IF SaveImage(pixels, args).kind = "panic" THEN "panicked" ELSE "saved"
    /\ UNCHANGED <<args, caller, scene, renderer, num_threads, tasks, pixels,
                   processed, traceLog, gin>>

NextMain ==
    \/ MainValidate
    \/ MainCreateScene
    \/ MainRender
    \/ \E c \in DOMAIN tasks : ProcessPixel(c)
    \/ Collect
    \/ MainSaveImage

SpecMain == InitMain /\ [][NextMain]_vars

Invalid(a) ==
    \/ a.width = 0
    \/ a.height = 0
    \/ a.samples = 0
    \/ a.width > MAX_DIMENSION
    \/ a.height > MAX_DIMENSION

\* C14: Args::validate returns an error exactly when width = 0, height = 0,
\* samples = 0, width > 8192 or height > 8192; main calls validate before building
\* the scene, and when validate fails main returns a ConfigError with no scene
\* built, no pixel rendered and no image written.
C14_ValidateFirst ==
    /\ pc # "parsed" => (pc = "failed" <=> Invalid(args))
    /\ pc = "parsed" => scene = Null /\ renderer = Null
    /\ pc = "failed" =>
        /\ gout.result.ok = FALSE
        /\ gout.result.err.kind = "ConfigError"
        /\ scene = Null
        /\ renderer = Null
        /\ tasks = <<>>
        /\ processed = <<>>
        /\ pixels = <<>>
        /\ ~ENABLED NextMain

\* a height over the limit alone makes main fail
C14_Witness ==
    /\ pc = "failed"
    /\ args.width \in 1..MaxWidth
    /\ args.height = MAX_DIMENSION + 1
    /\ args.samples > 0

\* dimensions at the limit pass
C14_WitnessAtLimit ==
    /\ pc = "validated"
    /\ args.width = MAX_DIMENSION
    /\ args.height = MAX_DIMENSION

\* save_image has handed the pixel sequence to the image writer
Handed == pc \in {"saved", "panicked"}

\* C16: in the command-line flow, for every width and height accepted by
\* validate, the pixel sequence handed to the image writer has length
\* args.width * args.height and is in row-major order for a width-by-height
\* image, so saving never fails on a size mismatch.
C16_MainPixelsMatchSize ==
    Handed =>
        /\ Len(pixels) = args.width * args.height
        /\ \A n \in 0..(args.width * args.height - 1) :
            /\ processed[n][1].col = n % args.width
            /\ processed[n][1].row = n \div args.width
            /\ SourcePixels(pixels[n + 1]) = {n}
        /\ pc = "saved"

\* every draw of the run gave sampler.count() rays
FullDraws ==
    \A n \in DOMAIN processed :
        \A k \in DOMAIN processed[n] :
            processed[n][k].rays = SamplerCount(renderer.sampler)

\* for a square image whose draws were all full, the claim's statement holds
C16_SquareFullDraws ==
    (Handed /\ args.width = args.height /\ FullDraws) =>
        /\ Len(pixels) = args.width * args.height
        /\ \A n \in 0..(args.width * args.height - 1) :
            /\ processed[n][1].col = n % args.width
            /\ processed[n][1].row = n \div args.width
            /\ SourcePixels(pixels[n + 1]) = {n}
        /\ pc = "saved"

\* a wider-than-tall image whose draws were all full: from_vec(...).unwrap() panics
C16_WidePanics ==
    /\ pc = "panicked"
    /\ args.width > args.height
    /\ FullDraws
    /\ Len(pixels) = args.height * args.height

\* a taller-than-wide image is saved from height * height pixels
C16_TallSaved ==
    /\ pc = "saved"
    /\ args.width < args.height
    /\ FullDraws
    /\ Len(pixels) = args.height * args.height

-----------------------------------------------------------------------------
(* Phong::new applied to coefficients in quarters *)

MaxQuarters == 5

\* Phong::new: the assert on kd + ks, then the material
PhongNew(ambient_brdf, diffuse_brdf, specular_brdf) ==
    LET sum == FAdd(diffuse_brdf.kd, specular_brdf.ks)
    IN  IF FLe(FInt(0), sum) /\ FLt(sum, FInt(1))
        THEN Phong(ambient_brdf, diffuse_brdf, specular_brdf)
        ELSE [kind |-> "panic", msg |-> "kd + ks >= 1.0 in Phong Constructor"]

\* the f64 coefficients tried: the quarters from -MaxQuarters/4 up, and NaN
Coefficients == {FNorm(FDiv(q, 4)) : q \in (-MaxQuarters)..MaxQuarters} \cup {NaN}

InitPhong ==
    /\ \E kd \in Coefficients, ks \in Coefficients, ka \in {FDiv(1, 4), FInt(1)},
          exp \in 1..2 :
        gin = [fn |-> "Phong::new",
               ambient_brdf |-> Lambertian(ka, White),
               diffuse_brdf |-> Lambertian(kd, Tint),
               specular_brdf |-> GlossySpecular(ks, exp, White)]
    /\ gout = Null
    /\ args = Null /\ caller = "lib" /\ scene = Null /\ renderer = Null
    /\ pc = "geometry"
    /\ IdleRender
    /\ IdleTrace

PhongNewCall ==
    /\ gin.fn = "Phong::new"
    /\ gout = Null
    /\ gout' = PhongNew(gin.ambient_brdf, gin.diffuse_brdf, gin.specular_brdf)
    /\ UNCHANGED <<gin, traceLog>>
    /\ UNCHANGED renderVars

NextPhong == PhongNewCall

SpecPhong == InitPhong /\ [][NextPhong]_vars

PhongDone == gin.fn = "Phong::new" /\ gout # Null

CoefficientSum == FAdd(gin.diffuse_brdf.kd, gin.specular_brdf.ks)

Constructed ==
    gout = Phong(gin.ambient_brdf, gin.diffuse_brdf, gin.specular_brdf)

\* C15: Phong::new fails (panics at scene-build time) exactly when diffuse kd +
\* specular ks >= 1.0, and constructs the material for every pair with
\* kd + ks < 1.0.
C15_PanicsExactlyFromOne ==
    PhongDone =>
        /\ gout.kind = "panic" <=> FLe(FInt(1), CoefficientSum)
        /\ FLt(CoefficientSum, FInt(1)) => Constructed

\* what the assert does: the material is constructed exactly for 0 <= kd + ks < 1
C15_PanicsOutsideUnitRange ==
    PhongDone =>
        /\ gout.kind = "panic" <=>
              ~(FLe(FInt(0), CoefficientSum) /\ FLt(CoefficientSum, FInt(1)))
        /\ gout.kind # "panic" => Constructed

\* from a sum of 1.0 on, Phong::new panics
C15_PanicsFromOne ==
    (PhongDone /\ FLe(FInt(1), CoefficientSum)) => gout.kind = "panic"

\* a pair with kd + ks < 0 is refused
C15_NegativeSumPanics ==
    /\ PhongDone
    /\ FLt(CoefficientSum, FInt(0))
    /\ gout.kind = "panic"

-----------------------------------------------------------------------------
(* Bvh::construct alone *)

NextBvhBuild == ConstructCall

SpecBvhBuild == InitBvh /\ [][NextBvhBuild]_vars

\* box a contains box b
BoxContains(a, b) ==
    \A i \in Axes : a.min[i] <= b.min[i] /\ b.max[i] <= a.max[i]

\* the primitives of a subtree
RECURSIVE Primitives(_)
Primitives(o) ==
    IF o.kind = "bvh" THEN Primitives(o.left) \cup Primitives(o.right) ELSE {o}

\* the internal nodes of a subtree
RECURSIVE Nodes(_)
Nodes(o) ==
    IF o.kind = "bvh" THEN {o} \cup Nodes(o.left) \cup Nodes(o.right) ELSE {}

Built == gin.fn = "Bvh::construct" /\ scene # Null

\* C18: in every tree built by Bvh::construct, each internal node's box contains
\* the bounding boxes of both its children, and therefore the bounding box of
\* every primitive in its subtree.
C18_NodeBoxContainsSubtree ==
    Built =>
        \A node \in Nodes(scene.root[1]) :
            /\ BoxContains(node.aabb, GetBoundingBox(node.left))
            /\ BoxContains(node.aabb, GetBoundingBox(node.right))
            /\ \A p \in Primitives(node) : BoxContains(node.aabb, GetBoundingBox(p))

\* a tree of four primitives with an internal node under the root, whose root
\* box is larger than the box of each child
C18_Witness ==
    /\ Built
    /\ Cardinality(Primitives(scene.root[1])) = 4
    /\ Cardinality(Nodes(scene.root[1])) = 3
    /\ scene.root[1].aabb # GetBoundingBox(scene.root[1].left)
    /\ scene.root[1].aabb # GetBoundingBox(scene.root[1].right)

-----------------------------------------------------------------------------
(* Area::shadow_amount at a fixed hit point, before and after a primitive is
   added to the scene.  A primitive is described by what the shadow rays meet:
   for each sample point on the light, the depth at which the ray from the hit
   point towards that sample crosses the primitive, 0 when it does not. *)

MaxOccluders == 2
MaxLightTriangles == 2

\* the depths between the hit point and the light, and that of the light itself
Depths == 1..MaxOccluders
LightDepth == MaxOccluders + 1

\* Area::new: sample_points_sqrt is 1
AreaNew(geometric_objects, material) ==
    [kind |-> "area", geometric_objects |-> geometric_objects,
     sample_points_sqrt |-> 1, material |-> material]

\* the sample points of the light: get_samples(sample_points_sqrt) of each of its
\* geometric objects, flattened; a sample is named by its place in that list
LightSamples(light) ==
    1..(light.sample_points_sqrt * light.sample_points_sqrt * light.geometric_objects)

\* the nearest intersection of the shadow ray towards sample k within
\* [0, distance to the sample], as the acceleration structure is to return it
NearestOnShadowRay(objects, k) ==
    LET met == {i \in DOMAIN objects : objects[i].at[k] # 0}
    IN  IF met = {} THEN NoHit
        ELSE LET i == CHOOSE i \in met : \A j \in met : objects[i].at[k] <= objects[j].at[k]
             IN  [hit |-> TRUE, dist |-> objects[i].at[k], material |-> objects[i].material]

\* in_shadow / World::is_in_shadow: the nearest intersection, kept when its
\* material is not emissive
IsInShadow(objects, k) ==
    LET record == NearestOnShadowRay(objects, k)
    IN  record.hit /\ ~IsEmissive(record.material)

\* Area::shadow_amount
AreaShadowAmount(light, objects) ==
    LET total == Cardinality({k \in LightSamples(light) : ~IsInShadow(objects, k)})
    IN  FNorm(FDiv(total,
                   light.sample_points_sqrt * light.sample_points_sqrt
                       * light.geometric_objects))

\* the light's own emitting surface, met by every shadow ray at its sample point
LightSurface(light) ==
    [material |-> light.material, at |-> [k \in LightSamples(light) |-> LightDepth]]

AreaMaterials ==
    {Emissive(FInt(2), White), Matte(Lambertian(FDiv(1, 4), White), Lambertian(FDiv(1, 2), White))}

\* the primitives between the hit point and the light
Between(light) ==
    {[material |-> m, at |-> at] :
        m \in AreaMaterials, at \in [LightSamples(light) -> {0} \cup Depths]}

\* no two primitives cross a shadow ray at the same depth
DistinctDepths(objects, light) ==
    \A k \in LightSamples(light) : \A i, j \in DOMAIN objects :
        (i # j /\ objects[i].at[k] # 0) => objects[i].at[k] # objects[j].at[k]

InitArea ==
    /\ \E g \in 1..MaxLightTriangles :
        LET light == AreaNew(g, Emissive(FInt(2), White))
        IN  \E objects \in UNION {[1..n -> Between(light)] : n \in 0..MaxOccluders},
               added \in Between(light) :
            /\ \E k \in LightSamples(light) : added.at[k] # 0
            /\ DistinctDepths(objects \o <<added>>, light)
            /\ gin = [fn |-> "Area::shadow_amount", light |-> light, added |-> added]
            /\ scene = [kind |-> "scene",
                        objects |-> <<LightSurface(light)>> \o objects]
    /\ gout = Null
    /\ args = Null /\ caller = "lib" /\ renderer = Null
    /\ pc = "built"
    /\ IdleRender
    /\ IdleTrace

\* light.shadow_amount(hit) on the scene as it is
ShadowAmountCall ==
    /\ gin.fn = "Area::shadow_amount"
    /\ pc \in {"built", "added"}
    /\ gout' = IF pc = "built"
               THEN [before |-> AreaShadowAmount(gin.light, scene.objects)]
               ELSE [before |-> gout.before,
                     after |-> AreaShadowAmount(gin.light, scene.objects)]
    /\ pc' = IF pc = "built" THEN "measured" ELSE "measured again"
    /\ UNCHANGED <<args, caller, scene, renderer, num_threads, tasks, pixels,
                   processed, traceLog, gin>>

\* the scene is rebuilt with one more primitive between the point and the light
AddPrimitive ==
    /\ gin.fn = "Area::shadow_amount"
    /\ pc = "measured"
    /\ scene' = [scene EXCEPT !.objects = Append(@, gin.added)]
    /\ pc' = "added"
    /\ UNCHANGED <<args, caller, renderer, num_threads, tasks, pixels, processed,
                   traceLog, gin, gout>>

NextArea == ShadowAmountCall \/ AddPrimitive

SpecArea == InitArea /\ [][NextArea]_vars

MeasuredTwice == gin.fn = "Area::shadow_amount" /\ pc = "measured again"

\* some primitive that is not emissive lies on the shadow ray towards sample k
OccluderOnRay(objects, k) ==
    \E i \in DOMAIN objects : objects[i].at[k] # 0 /\ ~IsEmissive(objects[i].material)

\* C13: for a fixed hit point, a fixed area light and fixed sample points on the
\* light, adding a primitive to the scene between the point and the light never
\* increases the value returned by Area::shadow_amount.
C13_ShadowMonotone ==
    MeasuredTwice => FLe(gout.after, gout.before)

\* adding a primitive that is not emissive never increases the value
C13_MonotoneForOpaque ==
    (MeasuredTwice /\ ~IsEmissive(gin.added.material)) => FLe(gout.after, gout.before)

\* an emissive primitive added in front of an occluder lights the point up
C13_EmissiveInFront ==
    /\ MeasuredTwice
    /\ IsEmissive(gin.added.material)
    /\ gout.before = FInt(0)
    /\ gout.after = FInt(1)
    /\ \A k \in LightSamples(gin.light) : OccluderOnRay(scene.objects, k)

-----------------------------------------------------------------------------
(* The draws of sample points made during Renderer::render *)

\* the draws made so far, as the numbers of rays they yielded
Draws ==
    UNION {{processed[n][k].rays : k \in DOMAIN processed[n]} : n \in DOMAIN processed}

\* C19: every draw of sample points by a camera (get_rays through Sampler::square
\* and Sampler::unit_square) yields exactly sampler.count() rays, for every
\* configured sample count and every set offset in 0..83 that the draw can pick.
C19_DrawYieldsCount ==
    \A rays \in Draws : rays = SamplerCount(renderer.sampler)

\* a draw never yields more than sampler.count() rays, and never none
C19_AtMostCount ==
    \A rays \in Draws : 1 <= rays /\ rays <= SamplerCount(renderer.sampler)

\* every draw is full unless the sampler is configured for 2 or 3 samples, the
\* counts whose pool of NUM_SETS points is shorter than skip + count
C19_FullUnlessTwoOrThree ==
    SamplerCount(renderer.sampler) \notin {2, 3} =>
        \A rays \in Draws : rays = SamplerCount(renderer.sampler)

\* a draw of a sampler configured for 3 samples that yields 1 ray
C19_ShortDraw ==
    /\ SamplerCount(renderer.sampler) = 3
    /\ 1 \in Draws

-----------------------------------------------------------------------------
(* Renderer::render with the state its tasks share: the scene and the renderer
   behind &self, make_rng's COUNTER and the herd of arenas *)

\* Sampler::unit_square takes &self and copies the points out by a drain
UnitSquareDrains(s, skip) == [s EXCEPT !.samples = SubSeq(@, 1, Min2(skip, Len(@)))]

\* the sampler a draw leaves behind: unit_square takes &self and copies the
\* points it returns, the pool stays as it is
UnitSquareLeaves(s, skip) == s

\* Herd::get: an arena of the herd when one is free, else a fresh one
HerdGet(herd) == [extra |-> Max2(herd.extra - 1, 0)]

\* dropping a Member hands its arena to the herd
HerdReturn(herd) == [extra |-> herd.extra + 1]

\* COUNTER, in numbers of fetch_add calls, after the draw of get_rays and, when
\* the shading of the pixel's rays samples a light or a glossy direction, one more
SeedsDrawn(counter, shading) == IF shading THEN counter + 2 ELSE counter + 1

\* the renders followed: one sample per pixel, or the largest full draw
SharedArgSet ==
    [width : 1..MaxWidth, height : 1..MaxHeight, samples : {1, MaxSamples},
     preview : BOOLEAN]

\* render is entered: Sampler::new has drawn one seed, the herd is empty
InitShared ==
    /\ args \in SharedArgSet
    /\ caller = "lib"
    /\ scene = CreateScene(caller, args)
    /\ renderer = RendererNew(args)
    /\ num_threads \in 1..MaxThreads
    /\ pc = "rendering"
    /\ tasks = StartTasks(TotalPixels(scene), num_threads)
    /\ pixels = <<>>
    /\ processed = [n \in 0..(TotalPixels(scene) - 1) |-> <<>>]
    /\ IdleTrace
    /\ gin = [fn |-> "Renderer::render", scene |-> scene, renderer |-> renderer,
              herd |-> [extra |-> 0]]
    /\ gout = [COUNTER |-> 1, herd |-> [extra |-> 0], members |-> {}]

\* task c starts: let member = herd.get()
TaskStart(c) ==
    /\ pc = "rendering"
    /\ gin.fn = "Renderer::render"
    /\ c \notin gout.members
    /\ tasks[c].next = ChunkFirst(c, PixelsPerThread(TotalPixels(scene), num_threads))
    /\ ~tasks[c].done
    /\ gout' = [gout EXCEPT !.herd = HerdGet(@), !.members = @ \cup {c}]
    /\ UNCHANGED <<args, caller, scene, renderer, num_threads, pc, tasks, pixels,
                   processed, traceLog, gin>>

\* one pixel of task c: get_rays draws a seed in unit_square (the smallest and the
\* largest skip are followed), the shading of the traced rays may draw more; after
\* the last pixel the member is dropped
TaskPixel(c) ==
    /\ pc = "rendering"
    /\ gin.fn = "Renderer::render"
    /\ c \in gout.members
    /\ ~tasks[c].done
    /\ \E skip \in {0, renderer.sampler.num_sets - 1}, shading \in BOOLEAN :
        /\ PixelStep(c, skip)
        /\ renderer' = [renderer EXCEPT !.sampler = UnitSquareLeaves(@, skip)]
        /\ gout' = IF tasks[c].next + 1 = tasks[c].end
                   THEN [COUNTER |-> SeedsDrawn(gout.COUNTER, shading),
                         herd |-> HerdReturn(gout.herd),
                         members |-> gout.members \ {c}]
                   ELSE [gout EXCEPT !.COUNTER = SeedsDrawn(@, shading)]
    /\ UNCHANGED <<args, caller, scene, num_threads, pc, pixels, traceLog, gin>>

NextShared ==
    \/ \E c \in DOMAIN tasks : TaskStart(c)
    \/ \E c \in DOMAIN tasks : TaskPixel(c)
    \/ Collect

SpecShared == InitShared /\ [][NextShared]_vars

\* the scene (with its BVH, lights and materials) and the renderer (the
\* sampler's pool, max_depth) are those render was entered with
ReadOnlyKept == scene = gin.scene /\ renderer = gin.renderer

\* C17: from the start to the end of Renderer::render, no worker task changes the
\* scene, the BVH, the lights, the materials, the sampler's sample pool or
\* max_depth; the only state shared between tasks that is ever written is the
\* atomic seed counter of make_rng.
C17_OnlySeedCounterWritten ==
    /\ ReadOnlyKept
    /\ gout.herd = gin.herd

\* from the start to the end of render the scene and the renderer are never
\* changed; the state shared between tasks that is written is make_rng's COUNTER
\* and the herd of arenas
C17_SceneAndRendererReadOnly == ReadOnlyKept

\* render has returned, its tasks having drawn seeds and handed arenas back
C17_Witness ==
    /\ pc = "done"
    /\ gin.fn = "Renderer::render"
    /\ Len(tasks) > 1
    /\ gout.COUNTER > Len(tasks) + 1
    /\ gout.herd.extra > 0
    /\ ReadOnlyKept

-----------------------------------------------------------------------------
(* The direct lighting of the generic shade function, checked under SpecShade *)

\* the lights for which shade calls light.shadow_amount(hit): those that passed
\* the two early exits before it
ShadowQueried(hit) ==
    {i \in DOMAIN hit.lights :
        /\ ~(Dot(hit.normal, hit.lights[i].direction) <= 0)
        /\ ~(hit.lights[i].radiance = Black)}

\* (diffuse + specular) * radiance * shadow_amount * cos_theta of light i
LightTerm(m, hit, i) ==
    LET wi == hit.lights[i].direction
        cos_theta == FInt(Dot(hit.normal, wi))
        brdf == ColorAdd(MaterialDiffuse(m, hit, wi), MaterialSpecular(m, hit, wi))
    IN  [c \in Axes |->
            FMul(brdf[c],
                 FMul(FMul(hit.lights[i].radiance[c], hit.lights[i].shadow), cos_theta))]

\* the sum of the terms of the lights in S
RECURSIVE SumOfTerms(_, _, _)
SumOfTerms(m, hit, S) ==
    IF S = {} THEN Black
    ELSE LET i == CHOOSE i \in S : TRUE
         IN  ColorAdd(LightTerm(m, hit, i), SumOfTerms(m, hit, S \ {i}))

\* the lights with cos_theta > 0, non-zero radiance and shadow_amount != 0
PassingLights(hit) ==
    {i \in DOMAIN hit.lights :
        /\ Dot(hit.normal, hit.lights[i].direction) > 0
        /\ \E c \in Axes : ~FEq(hit.lights[i].radiance[c], FInt(0))
        /\ ~FEq(hit.lights[i].shadow, FInt(0))}

-----------------------------------------------------------------------------
(* in_shadow / World::is_in_shadow on one shadow ray.  A primitive is described
   by the depth at which the shadow ray crosses it (0 when it does not) and by
   its material; t_max is the far end of the range. *)

\* the nearest intersection of the shadow ray within [0, t_max], as
\* root.intersects(&shadow_ray, 0.0, t_max) is to return it
NearestWithin(objects, t_max) ==
    LET met == {i \in DOMAIN objects : objects[i].at[1] # 0 /\ objects[i].at[1] <= t_max}
    IN  IF met = {} THEN NoHit
        ELSE LET i == CHOOSE i \in met : \A j \in met : objects[i].at[1] <= objects[j].at[1]
             IN  [hit |-> TRUE, dist |-> objects[i].at[1], material |-> objects[i].material]

\* in_shadow(hit, dir, t_max): .filter(|obj| !obj.material.emissive()).is_some()
InShadow(objects, t_max) ==
    LET record == NearestWithin(objects, t_max)
    IN  record.hit /\ ~IsEmissive(record.material)

\* the primitives a shadow ray can cross, at depths up to one beyond MaxOccluders
OnRay ==
    {[material |-> m, at |-> <<d>>] : m \in AreaMaterials, d \in 0..LightDepth}

InitShadowRay ==
    /\ \E objects \in UNION {[1..n -> OnRay] : n \in 0..MaxOccluders}, t_max \in 1..LightDepth :
        /\ \A i, j \in DOMAIN objects :
              (i # j /\ objects[i].at[1] # 0) => objects[i].at[1] # objects[j].at[1]
        /\ gin = [fn |-> "in_shadow", t_max |-> t_max]
        /\ scene = [kind |-> "scene", objects |-> objects]
    /\ gout = Null
    /\ args = Null /\ caller = "lib" /\ renderer = Null
    /\ pc = "built"
    /\ IdleRender
    /\ IdleTrace

\* in_shadow(hit, dir, t_max) on the scene
InShadowCall ==
    /\ gin.fn = "in_shadow"
    /\ pc = "built"
    /\ gout' = [value |-> InShadow(scene.objects, gin.t_max)]
    /\ pc' = "tested"
    /\ UNCHANGED <<args, caller, scene, renderer, num_threads, tasks, pixels,
                   processed, traceLog, gin>>

NextShadowRay == InShadowCall

SpecShadowRay == InitShadowRay /\ [][NextShadowRay]_vars

ShadowTested == gin.fn = "in_shadow" /\ pc = "tested"

\* the primitives of the given kind that the ray crosses within [0, t_max]
CrossedWithin(emissive) ==
    {i \in DOMAIN scene.objects :
        /\ scene.objects[i].at[1] # 0
        /\ scene.objects[i].at[1] <= gin.t_max
        /\ IsEmissive(scene.objects[i].material) = emissive}

\* C22: the shadow test (in_shadow / is_in_shadow) returns true exactly when at
\* least one non-emissive primitive intersects the shadow ray within [0, t_max];
\* emissive primitives never count as occluders, also when an emissive primitive
\* is the nearest thing the shadow ray hits and a non-emissive primitive lies
\* behind it within the range.
C22_ShadowIffOccluder ==
    ShadowTested => (gout.value <=> CrossedWithin(FALSE) # {})

\* what the test returns: whether the nearest primitive crossed within the range
\* is a non-emissive one
C22_NearestDecides ==
    ShadowTested =>
        (gout.value <=>
            \E i \in CrossedWithin(FALSE) :
                \A j \in CrossedWithin(TRUE) :
                    scene.objects[i].at[1] < scene.objects[j].at[1])

\* an emissive primitive never makes the test return true
C22_EmissiveNeverOccludes ==
    (ShadowTested /\ gout.value) => CrossedWithin(FALSE) # {}

\* an emissive primitive in front of a non-emissive one, both within the range:
\* the test returns false
C22_EmissiveHidesOccluder ==
    /\ ShadowTested
    /\ ~gout.value
    /\ CrossedWithin(FALSE) # {}
    /\ CrossedWithin(TRUE) # {}

-----------------------------------------------------------------------------
(* Directional::shadow_amount at a hit point whose shadow ray towards the light
   crosses the primitives of the scene at the given depths *)

\* a Directional light
Directional(ls, cl, direction) ==
    [kind |-> "directional", ls |-> ls, cl |-> cl, direction |-> direction]

\* Directional::shadow_amount(&self, _hit): the hit is not looked at
DirectionalShadowAmount(light, hit) == FInt(1)

\* Directional::radiance
DirectionalRadiance(light, hit) == ColorScale(light.cl, light.ls)

InitDirectional ==
    /\ \E objects \in UNION {[1..n -> OnRay] : n \in 0..MaxOccluders}, ls \in {FInt(1), FInt(2)} :
        /\ \A i, j \in DOMAIN objects :
              (i # j /\ objects[i].at[1] # 0) => objects[i].at[1] # objects[j].at[1]
        /\ gin = [fn |-> "Directional::shadow_amount",
                  light |-> Directional(ls, White, <<0, 0, 1>>)]
        /\ scene = [kind |-> "scene", objects |-> objects]
    /\ gout = Null
    /\ args = Null /\ caller = "lib" /\ renderer = Null
    /\ pc = "built"
    /\ IdleRender
    /\ IdleTrace

\* light.shadow_amount(hit) and light.radiance(hit) for the directional light
DirectionalCall ==
    /\ gin.fn = "Directional::shadow_amount"
    /\ pc = "built"
    /\ gout' = [amount |-> DirectionalShadowAmount(gin.light, scene),
                radiance |-> DirectionalRadiance(gin.light, scene)]
    /\ pc' = "measured"
    /\ UNCHANGED <<args, caller, scene, renderer, num_threads, tasks, pixels,
                   processed, traceLog, gin>>

NextDirectional == DirectionalCall

SpecDirectional == InitDirectional /\ [][NextDirectional]_vars

DirectionalDone == gin.fn = "Directional::shadow_amount" /\ pc = "measured"

\* the primitives of the given kind that the shadow ray crosses, at any distance
CrossedAnywhere(emissive) ==
    {i \in DOMAIN scene.objects :
        /\ scene.objects[i].at[1] # 0
        /\ IsEmissive(scene.objects[i].material) = emissive}

\* C23: Directional::shadow_amount(hit) is 0 when a shadow ray from the hit point
\* toward the light's direction hits a non-emissive primitive at any distance,
\* and 1 when it hits nothing.
C23_DirectionalShadow ==
    DirectionalDone =>
        /\ CrossedAnywhere(FALSE) # {} => FEq(gout.amount, FInt(0))
        /\ (CrossedAnywhere(FALSE) = {} /\ CrossedAnywhere(TRUE) = {})
              => FEq(gout.amount, FInt(1))

\* the value is 1 when the shadow ray hits nothing
C23_UnoccludedIsLit ==
    (DirectionalDone /\ CrossedAnywhere(FALSE) = {} /\ CrossedAnywhere(TRUE) = {})
        => FEq(gout.amount, FInt(1))

\* the value does not depend on the scene
C23_AlwaysOne ==
    DirectionalDone => FEq(gout.amount, FInt(1))

\* a non-emissive primitive on the shadow ray, and the point counts as fully lit
C23_OccludedIsLit ==
    /\ DirectionalDone
    /\ CrossedAnywhere(FALSE) # {}
    /\ FEq(gout.amount, FInt(1))

-----------------------------------------------------------------------------
(* The chain of nested Renderer::trace calls that one primary ray starts: trace
   shades the material struck, shade asks the material for its reflective term
   once, and Phong and Reflective trace the reflected ray from there.  traceLog
   holds the call stack, gout the numbers of calls made so far. *)

\* the largest value of the u8 depth
U8_MAX == 255

\* the depth of the nested call when the sum is formed with one step too many
ReflectedDepthSkips(hit) == (hit.depth + 2) % (U8_MAX + 1)

\* hit.depth + 1 of Phong::reflective and Reflective::reflective, in 8 bits
ReflectedDepth(hit) == (hit.depth + 1) % (U8_MAX + 1)

\* what scene.intersects answers for a ray: nothing, or the material struck
Struck == {"none", "emissive", "matte", "phong", "reflective"}

\* the materials whose reflective term traces a reflected ray
Reflecting == {"phong", "reflective"}

InitChain ==
    /\ args \in {a \in ArgSet : a.width = 1 /\ a.height = 1 /\ a.samples = 1}
    /\ caller = "lib"
    /\ renderer = RendererNew(args)
    /\ scene = Null
    /\ gin = [fn |-> "trace chain"]
    /\ gout = [calls |-> 0, queried |-> 0, overflowed |-> FALSE]
    /\ traceLog = [stack |-> <<>>]
    /\ pc = "ready"
    /\ IdleRender

\* render calls self.trace(&ray, 0) for a primary ray
ChainStart ==
    /\ gin.fn = "trace chain"
    /\ pc = "ready"
    /\ traceLog' = [stack |-> <<[depth |-> 0, at |-> "entered", material |-> "none"]>>]
    /\ pc' = "tracing"
    /\ UNCHANGED <<args, caller, scene, renderer, num_threads, tasks, pixels,
                   processed, gin, gout>>

\* the stack without its top frame; the chain has returned when it is empty
Popped(stack) == SubSeq(stack, 1, Len(stack) - 1)

\* the body of Renderer::trace for the call on top of the stack: past max_depth
\* it returns black without asking the scene; else the scene is asked, a miss
\* returns black, and the material struck is shaded, which returns at once for
\* Emissive and Matte and traces the reflected ray for Phong and Reflective
ChainTrace ==
    /\ gin.fn = "trace chain"
    /\ pc = "tracing"
    /\ traceLog.stack # <<>>
    /\ LET stack == traceLog.stack
           top == stack[Len(stack)]
       IN  /\ top.at = "entered"
           /\ IF DepthExceeded(top.depth, renderer.max_depth)
              THEN /\ traceLog' = [stack |-> Popped(stack)]
                   /\ gout' = [gout EXCEPT !.calls = @ + 1]
                   /\ pc' = IF Popped(stack) = <<>> THEN "returned" ELSE pc
              ELSE \E struck \in Struck :
                   IF struck \in Reflecting
                   THEN /\ traceLog' =
                            [stack |-> Append([stack EXCEPT ![Len(stack)] =
                                                  [depth |-> top.depth, at |-> "shading",
                                                   material |-> struck]],
                                              [depth |-> ReflectedDepth(top),
                                               at |-> "entered", material |-> "none"])]
                        /\ gout' = [calls |-> gout.calls + 1,
                                    queried |-> gout.queried + 1,
                                    overflowed |-> gout.overflowed
                                                   \/ top.depth + 1 > U8_MAX]
                        /\ pc' = pc
                   ELSE /\ traceLog' = [stack |-> Popped(stack)]
                        /\ gout' = [gout EXCEPT !.calls = @ + 1, !.queried = @ + 1]
                        /\ pc' = IF Popped(stack) = <<>> THEN "returned" ELSE pc
    /\ UNCHANGED <<args, caller, scene, renderer, num_threads, tasks, pixels,
                   processed, gin>>

\* the nested call has returned: reflective and shade finish, trace returns
ChainReturn ==
    /\ gin.fn = "trace chain"
    /\ pc = "tracing"
    /\ traceLog.stack # <<>>
    /\ traceLog.stack[Len(traceLog.stack)].at = "shading"
    /\ traceLog' = [stack |-> Popped(traceLog.stack)]
    /\ pc' = IF Popped(traceLog.stack) = <<>> THEN "returned" ELSE pc
    /\ UNCHANGED <<args, caller, scene, renderer, num_threads, tasks, pixels,
                   processed, gin, gout>>

NextChain == ChainStart \/ ChainTrace \/ ChainReturn

\* a call in progress takes its next step
SpecChain == InitChain /\ [][NextChain]_vars /\ WF_vars(NextChain)

ChainReturned == gin.fn = "trace chain" /\ pc = "returned"

\* every nested call is one level deeper than the hit that made it, the scene
\* was asked at most max_depth + 1 times, and no depth left the 8 bits
ChainSafe ==
    gin.fn = "trace chain" =>
        /\ \A i \in 2..Len(traceLog.stack) :
              traceLog.stack[i].depth = traceLog.stack[i - 1].depth + 1
        /\ gout.queried <= renderer.max_depth + 1
        /\ gout.calls <= renderer.max_depth + 2
        /\ ~gout.overflowed
        /\ \A i \in DOMAIN traceLog.stack : traceLog.stack[i].depth + 1 <= U8_MAX

\* C24: every Renderer::trace call started by render at depth 0 terminates: each
\* recursive trace call made from a material's reflective term uses a depth
\* exactly one greater than the depth of the hit being shaded, so along any chain
\* of nested calls at most max_depth + 1 calls query the scene before a call with
\* depth > max_depth returns black, and depth + 1 never overflows the 8-bit depth
\* for max_depth in {1, 5}.
C24_TraceTerminates == []ChainSafe /\ <>ChainReturned

\* the longest chain: max_depth + 1 calls asked the scene, the last call was past
\* max_depth, and all of them have returned
C24_Witness ==
    /\ ChainReturned
    /\ gout.queried = renderer.max_depth + 1
    /\ gout.calls = renderer.max_depth + 2
    /\ renderer.max_depth = DEFAULT_MAX_DEPTH

-----------------------------------------------------------------------------
(* Bvh::construct on lists that include primitives without extent: coincident
   points, points along one axis, and a sphere *)

FlatPool ==
    <<Sphere("p1", 0, <<0, 0, 0>>),
      Sphere("p2", 0, <<0, 0, 0>>),
      Sphere("p3", 0, <<0, 0, 0>>),
      Sphere("p4", 0, <<1, 0, 0>>),
      Sphere("m1", 1, <<0, 0, 0>>)>>

\* the lists of up to MaxPrimitives distinct primitives of the pool, in any order
FlatLists ==
    {[i \in 1..Len(ix) |-> FlatPool[ix[i]]] :
        ix \in {q \in UNION {[1..n -> DOMAIN FlatPool] : n \in 1..MaxPrimitives} :
                    \A i, j \in DOMAIN q : i # j => q[i] # q[j]}}

InitBvhSplit ==
    /\ \E objects \in FlatLists, cfg \in BvhConfigs :
        gin = [fn |-> "Bvh::construct", objects |-> objects, cfg |-> cfg]
    /\ gout = Null
    /\ args = Null /\ caller = "lib" /\ scene = Null /\ renderer = Null
    /\ pc = "geometry"
    /\ IdleRender
    /\ IdleTrace

NextBvhSplit == ConstructCall

SpecBvhSplit == InitBvhSplit /\ [][NextBvhSplit]_vars

\* the number of primitives under a built object
RECURSIVE LeafCount(_)
LeafCount(o) ==
    IF o.kind = "bvh" THEN LeafCount(o.left) + LeafCount(o.right) ELSE 1

\* the split index behind every node of a tree: the size of its left part, which
\* lies in [1, n - 1] for the n primitives under the node
RECURSIVE SplitsInside(_)
SplitsInside(o) ==
    o.kind = "bvh" =>
        /\ LeafCount(o.left) >= 1
        /\ LeafCount(o.left) <= LeafCount(o) - 1
        /\ SplitsInside(o.left)
        /\ SplitsInside(o.right)

\* C25: Bvh::construct on any non-empty primitive list terminates and never
\* reaches the empty-list panic: a one-element list is returned as the primitive
\* itself without a wrapping node, and every split (two-element case, median
\* split, SAH split, and the fallback for zero-extent or zero-area bounds) uses a
\* split index in [1, n-1], so each recursive call receives at least one primitive.
C25_NoEmptySplit ==
    Built =>
        /\ scene.root[1] # Unreachable
        /\ Len(gin.objects) = 1 => scene.root[1] = gin.objects[1]
        /\ Len(gin.objects) >= 2 => scene.root[1].kind = "bvh"
        /\ SplitsInside(scene.root[1])

\* the SAH search fell back on the middle for three coincident points
C25_Witness ==
    /\ Built
    /\ Len(gin.objects) = 3
    /\ gin.cfg.MIN_PRIMITIVES_FOR_SPLIT = 3
    /\ \A i \in DOMAIN gin.objects : gin.objects[i].radius = 0
    /\ BoundsOf(gin.objects).min = BoundsOf(gin.objects).max
    /\ scene.root[1].kind = "bvh"
    /\ LeafCount(scene.root[1].left) = 1

\* the SAH search fell back on the middle for points along one axis, whose
\* surrounding box has an extent and no area
C25_FlatWitness ==
    /\ Built
    /\ Len(gin.objects) = 4
    /\ BoundsOf(gin.objects).min # BoundsOf(gin.objects).max
    /\ SurfaceArea(BoundsOf(gin.objects)) = 0
    /\ LeafCount(scene.root[1].left) = 2

-----------------------------------------------------------------------------
(* The distance of the hit that Triangle::intersects returns, under SpecTriangle *)

\* the origin of the ray lies on the triangle: in its plane, inside its edges
OriginOnTriangle ==
    /\ NonDegenerate(gin.triangle)
    /\ CrossesPlane(gin.triangle, gin.ray)
    /\ FEq(CrossingT(gin.triangle, gin.ray), FInt(0))
    /\ InsideTriangle(gin.triangle, gin.ray)

\* C26: Triangle::intersects rejects every candidate hit whose distance t is
\* outside [t_min, t_max] or not beyond the self-intersection epsilon; in
\* particular, with t_min = 0, a ray whose origin lies on the triangle (t = 0)
\* gets no hit from that triangle.
C26_RejectsNearHits ==
    TriangleDone =>
        /\ gout.hit => /\ InRange(gout.dist, gin.t_min, gin.t_max)
                       /\ FLt(FInt(0), gout.dist)
        /\ (OriginOnTriangle /\ gin.t_min = FInt(0)) => ~gout.hit

\* a returned hit lies within [t_min, t_max]
C26_RejectsOutsideRange ==
    (TriangleDone /\ gout.hit) => InRange(gout.dist, gin.t_min, gin.t_max)

\* a ray that starts on the triangle and is not parallel to it is answered with a
\* hit at distance 0
C26_HitAtOrigin ==
    /\ TriangleDone
    /\ OriginOnTriangle
    /\ AboveEpsilon
    /\ gin.t_min = FInt(0)
    /\ gout.hit
    /\ FEq(gout.dist, FInt(0))

\* every ray that starts on the triangle with a determinant above the epsilon is
\* answered with the hit at distance 0
C26_OriginAlwaysHit ==
    (TriangleDone /\ OriginOnTriangle /\ AboveEpsilon /\ gin.t_min = FInt(0)) =>
        (gout.hit /\ FEq(gout.dist, FInt(0)))

-----------------------------------------------------------------------------
(* The distance of a returned HitRecord, under SpecBvh: the tree of a one-element
   list is the sphere or the triangle itself, that of a longer list a Bvh node *)

\* what the left child of the root answers for the call's own range
LeftChildHit ==
    Intersects(scene.root[1].left, gin.ray, gin.t_min, gin.t_max)

\* C27: every HitRecord returned by Sphere::intersects, Triangle::intersects or
\* Bvh::intersects for a call (ray, t_min, t_max) has t_min <= dist <= t_max;
\* hence with t_min >= 0 the distance is never negative, and in Bvh::intersects
\* the returned distance is never greater than the left child's hit distance.
C27_DistanceInRange ==
    (BvhDone /\ gout.hit) =>
        /\ FLe(gin.t_min, gout.dist)
        /\ FLe(gout.dist, gin.t_max)
        /\ FLe(FInt(0), gin.t_min) => FLe(FInt(0), gout.dist)
        /\ (scene.root[1].kind = "bvh" /\ LeftChildHit.hit)
              => FLe(gout.dist, LeftChildHit.dist)

\* a node whose right child is hit nearer than its left child, within a bounded
\* range: the nearer distance is returned
C27_Witness ==
    /\ BvhDone
    /\ gout.hit
    /\ scene.root[1].kind = "bvh"
    /\ gin.t_max = FInt(2)
    /\ LeftChildHit.hit
    /\ FLt(gout.dist, LeftChildHit.dist)
    /\ FLt(FInt(0), gout.dist)

\* a sphere alone, hit from inside at its far root
C27_SphereWitness ==
    /\ BvhDone
    /\ gout.hit
    /\ scene.root[1].kind = "sphere"
    /\ FLt(SmallerRoot(scene.root[1], gin.ray), FInt(0))
    /\ FEq(gout.dist, LargerRoot(scene.root[1], gin.ray))

\* a triangle alone, hit within the bounded range
C27_TriangleWitness ==
    /\ BvhDone
    /\ gout.hit
    /\ scene.root[1].kind = "triangle"
    /\ gin.t_max = FInt(2)
    /\ FLt(FInt(0), gout.dist)

-----------------------------------------------------------------------------
(* The leaves and the nodes of a built tree, under SpecBvhSplit *)

\* the primitives at the leaves of a built object, from left to right
RECURSIVE Leaves(_)
Leaves(o) ==
    IF o.kind = "bvh" THEN Leaves(o.left) \o Leaves(o.right) ELSE <<o>>

\* the number of Bvh nodes of a built object
RECURSIVE NodeCount(_)
NodeCount(o) ==
    IF o.kind = "bvh" THEN 1 + NodeCount(o.left) + NodeCount(o.right) ELSE 0

\* how often the primitive p occurs in the sequence q
Occurrences(q, p) == Cardinality({i \in DOMAIN q : q[i] = p})

\* C28: for every list of n >= 1 primitives, the tree built by Bvh::construct has
\* exactly n leaves and n - 1 internal nodes, and every input primitive is a leaf
\* exactly once: no primitive is dropped and none is duplicated by the sorting
\* and splitting.
C28_LeavesArePrimitives ==
    Built =>
        LET n == Len(gin.objects)
            leaves == Leaves(scene.root[1])
        IN  /\ scene.root[1] # Unreachable
            /\ Len(leaves) = n
            /\ NodeCount(scene.root[1]) = n - 1
            /\ \A i \in DOMAIN gin.objects : Occurrences(leaves, gin.objects[i]) = 1
            /\ \A j \in DOMAIN leaves : Occurrences(gin.objects, leaves[j]) = 1

\* four primitives, split by the SAH search, whose leaves come in another order
\* than the list had
C28_Witness ==
    /\ Built
    /\ Len(gin.objects) = MaxPrimitives
    /\ gin.cfg.MIN_PRIMITIVES_FOR_SPLIT <= MaxPrimitives
    /\ NodeCount(scene.root[1]) = MaxPrimitives - 1
    /\ Leaves(scene.root[1]) # gin.objects

-----------------------------------------------------------------------------
(* The coordinates of the points of one Sampler::unit_square draw.  The floats
   are scaled down: a significand has MantissaBits bits where f64 has 53, and the
   jitter that StandardUniform yields is a multiple of 2^-MantissaBits in [0, 1),
   as it is a multiple of 2^-53 there.  Numbers are counted in units of
   2^-MantissaBits. *)

MantissaBits == 4

\* 1.0 in units
One == 2 ^ MantissaBits

\* the gap between neighbouring floats around v
RECURSIVE Spacing(_)
Spacing(v) == IF v < One THEN 1 ELSE 2 * Spacing(v \div 2)

\* f64::from(k) + d: the exact sum rounded to the nearest float, ties to even
FloatAdd(k, d) ==
    LET v == k * One + d
        s == Spacing(v)
        q == v \div s
        rem == v % s
    IN  IF 2 * rem < s THEN q * s
        ELSE IF 2 * rem > s THEN (q + 1) * s
        ELSE IF q % 2 = 0 THEN q * s
        ELSE (q + 1) * s

\* the point pushed as number i (from 0) of the pool by Sampler::new, for the
\* jitter (dx, dy) drawn for it: ((k + dx) / n, (j + dy) / n).  n is 1 or 2 for
\* the counts followed here, so the division is exact.
SamplePoint(num_samples, i, jitter) ==
    LET n == ISqrt(num_samples)
        j == (i % (n * n)) \div n
        k == (i % (n * n)) % n
        dx == IF num_samples = 1 THEN One \div 2 ELSE jitter[1]
        dy == IF num_samples = 1 THEN One \div 2 ELSE jitter[2]
    IN  [x |-> FNorm(FDiv(FloatAdd(k, dx), n * One)),
         y |-> FNorm(FDiv(FloatAdd(j, dy), n * One))]

\* Sampler::unit_square for the drawn skip: the points skip .. skip + count - 1
\* of the pool, as far as the pool reaches
UnitSquarePoints(num_samples, skip, jitters) ==
    LET n == ISqrt(num_samples)
        len == NUM_SETS * n * n
        upto == Min2(skip + num_samples, len)
    IN  [m \in 1..(upto - skip) |-> SamplePoint(num_samples, skip + m - 1, jitters[m])]

\* the perfect-square sample counts within the bound whose n is 1 or 2
SquareCounts == {c \in 1..MaxSamples : c \in {1, 4}}

\* the smallest and the largest jitter StandardUniform yields
Jitters == {0, One - 1}

InitJitter ==
    /\ \E c \in SquareCounts, skip \in 0..(NUM_SETS - 1) :
        \E jitters \in [1..c -> Jitters \X Jitters] :
            /\ c = 1 => \A m \in 1..c : jitters[m] = <<0, 0>>
            /\ gin = [fn |-> "Sampler::unit_square", num_samples |-> c,
                      skip |-> skip, jitters |-> jitters]
    /\ gout = Null
    /\ args = Null /\ caller = "lib" /\ scene = Null /\ renderer = Null
    /\ pc = "sampler"
    /\ IdleRender
    /\ IdleTrace

\* sampler.unit_square()
UnitSquareCall ==
    /\ gin.fn = "Sampler::unit_square"
    /\ pc = "sampler"
    /\ gout' = [points |-> UnitSquarePoints(gin.num_samples, gin.skip, gin.jitters)]
    /\ pc' = "drawn"
    /\ UNCHANGED <<args, caller, scene, renderer, num_threads, tasks, pixels,
                   processed, traceLog, gin>>

NextJitter == UnitSquareCall

SpecJitter == InitJitter /\ [][NextJitter]_vars

SquareDrawn == gin.fn = "Sampler::unit_square" /\ pc = "drawn"

\* the points of the draw that lie in the cell (a, b) of the n-by-n grid:
\* a / n <= x < (a + 1) / n and b / n <= y < (b + 1) / n
InCell(a, b) ==
    LET n == ISqrt(gin.num_samples)
    IN  {m \in DOMAIN gout.points :
            /\ FLe(FDiv(a, n), gout.points[m].x) /\ FLt(gout.points[m].x, FDiv(a + 1, n))
            /\ FLe(FDiv(b, n), gout.points[m].y) /\ FLt(gout.points[m].y, FDiv(b + 1, n))}

EveryCellOnce ==
    LET n == ISqrt(gin.num_samples)
    IN  \A a, b \in 0..(n - 1) : Cardinality(InCell(a, b)) = 1

\* C29: for a perfect-square sample count n*n (n >= 1), every draw of
\* Sampler::unit_square returns points with both coordinates in [0,1) and
\* exactly one point in each of the n-by-n grid cells of the unit square, for
\* every set offset the draw can pick.
C29_OnePointPerCell ==
    SquareDrawn =>
        /\ \A m \in DOMAIN gout.points :
              /\ FLe(FInt(0), gout.points[m].x) /\ FLt(gout.points[m].x, FInt(1))
              /\ FLe(FInt(0), gout.points[m].y) /\ FLt(gout.points[m].y, FInt(1))
        /\ EveryCellOnce

\* the largest jitter was drawn for none of the points of the draw
BelowLargestJitter ==
    \A m \in DOMAIN gin.jitters : One - 1 \notin {gin.jitters[m][1], gin.jitters[m][2]}

\* with smaller jitters the draw has one point in each cell, for every skip
C29_CellsBelowLargestJitter ==
    (SquareDrawn /\ BelowLargestJitter) =>
        /\ Len(gout.points) = gin.num_samples
        /\ EveryCellOnce

\* the coordinates never leave the closed square
C29_WithinClosedSquare ==
    SquareDrawn =>
        \A m \in DOMAIN gout.points :
            /\ FLe(FInt(0), gout.points[m].x) /\ FLe(gout.points[m].x, FInt(1))
            /\ FLe(FInt(0), gout.points[m].y) /\ FLe(gout.points[m].y, FInt(1))

\* a coordinate of exactly 1.0: the sum 1 + dx was rounded up to 2.0
C29_CoordinateOne ==
    /\ SquareDrawn
    /\ gin.num_samples = 4
    /\ \E m \in DOMAIN gout.points : FEq(gout.points[m].x, FInt(1))
    /\ ~EveryCellOnce

\* a draw that starts inside one set and ends in the next
C29_StraddlingDraw ==
    /\ SquareDrawn
    /\ gin.num_samples = 4
    /\ gin.skip % 4 # 0
    /\ BelowLargestJitter
    /\ EveryCellOnce

-----------------------------------------------------------------------------
(* The 32-bit products of main: total_pixels in Renderer::render and total_rays
   in print_stats.  A u32 is held as its four bytes, lowest first. *)

BYTE == 256

\* the u32 of a number below 2^31
U32(x) ==
    <<x % BYTE, (x \div BYTE) % BYTE, (x \div (BYTE * BYTE)) % BYTE,
      x \div (BYTE * BYTE * BYTE)>>

\* the sum of the byte products a[i] * b[j] that fall into column c (from 0)
RECURSIVE ColumnFrom(_, _, _, _)
ColumnFrom(a, b, c, i) ==
    IF i > 4 THEN 0
    ELSE (IF c + 2 - i \in 1..4 THEN a[i] * b[c + 2 - i] ELSE 0)
         + ColumnFrom(a, b, c, i + 1)

\* column c with the carry of the columns below it
RECURSIVE ColumnSum(_, _, _)
ColumnSum(a, b, c) ==
    ColumnFrom(a, b, c, 1) + (IF c = 0 THEN 0 ELSE ColumnSum(a, b, c - 1) \div BYTE)

\* a * b on u32: the low 32 bits of the product, and whether it left the 32 bits
\* (the panic of a debug build, the wrap of a release build)
U32Mul(a, b) ==
    [value |-> [c \in 1..4 |-> ColumnSum(a, b, c - 1) % BYTE],
     overflowed |-> \E c \in 5..8 : ColumnSum(a, b, c - 1) % BYTE # 0]

StatsArgSet ==
    [width : {0, 1, 2, MAX_DIMENSION \div 2, MAX_DIMENSION, MAX_DIMENSION + 1},
     height : {0, 1, 2, MAX_DIMENSION \div 2, MAX_DIMENSION, MAX_DIMENSION + 1},
     samples : {0, 1, 63, 64, 255},
     preview : BOOLEAN]

InitStats ==
    /\ args \in StatsArgSet
    /\ caller = "main"
    /\ scene = Null
    /\ renderer = Null
    /\ pc = "parsed"
    /\ gin = [fn |-> "print_stats"]
    /\ gout = Null
    /\ IdleRender
    /\ IdleTrace

\* create_scene and the first lines of renderer.render():
\* total_pixels = (width * height) as usize, of the scene's view
RenderTotalPixels ==
    /\ gin.fn = "print_stats"
    /\ pc = "validated"
    /\ scene' = CreateScene(caller, args)
    /\ LET product == U32Mul(U32(scene'.view_width), U32(scene'.view_height))
       IN  /\ gout' = [total_pixels |-> product]
           /\ pc' \in IF product.overflowed THEN {"panicked", "rendered"} ELSE {"rendered"}
    /\ UNCHANGED <<args, caller, renderer, num_threads, tasks, pixels, processed,
                   traceLog, gin>>

\* print_stats(duration, &args): total_rays = width * height * u32::from(samples)
PrintStats ==
    /\ gin.fn = "print_stats"
    /\ pc = "rendered"
    /\ LET samples == IF args.preview THEN PREVIEW_SAMPLES ELSE args.samples
           area == U32Mul(U32(args.width), U32(args.height))
           rays == U32Mul(area.value, U32(samples))
           product == [value |-> rays.value,
                       overflowed |-> area.overflowed \/ rays.overflowed]
       IN  /\ gout' = [total_pixels |-> gout.total_pixels, total_rays |-> product]
           /\ pc' \in IF product.overflowed THEN {"panicked", "printed"} ELSE {"printed"}
    /\ UNCHANGED <<args, caller, scene, renderer, num_threads, tasks, pixels,
                   processed, traceLog, gin>>

NextStats ==
    \/ gin.fn = "print_stats" /\ MainValidate
    \/ RenderTotalPixels
    \/ PrintStats

SpecStats == InitStats /\ [][NextStats]_vars

PixelsCounted ==
    gin.fn = "print_stats" /\ gout # Null /\ "total_pixels" \in DOMAIN gout

RaysCounted ==
    gin.fn = "print_stats" /\ gout # Null /\ "total_rays" \in DOMAIN gout

\* C30: for every argument set accepted by Args::validate (1 <= width, height <=
\* 8192, 1 <= samples <= 255), the 32-bit unsigned products width * height in
\* Renderer::render and width * height * samples in main's print_stats do not
\* overflow 2^32.
C30_ProductsFit ==
    /\ PixelsCounted => ~gout.total_pixels.overflowed
    /\ RaysCounted => ~gout.total_rays.overflowed

\* the product of render fits for every accepted argument set
C30_PixelsFit ==
    PixelsCounted => ~gout.total_pixels.overflowed

\* the product of print_stats fits in preview mode and below 64 samples
C30_RaysFitBelow64 ==
    (RaysCounted /\ (args.preview \/ args.samples < 64)) => ~gout.total_rays.overflowed

\* 8192 * 8192 * 64 = 2^32: the product leaves the 32 bits and wraps to 0
C30_RaysOverflow ==
    /\ RaysCounted
    /\ args.width = MAX_DIMENSION
    /\ args.height = MAX_DIMENSION
    /\ args.samples = 64
    /\ gout.total_rays.overflowed
    /\ gout.total_rays.value = <<0, 0, 0, 0>>
    /\ gout.total_pixels.value = <<0, 0, 0, 4>>

====
